---- MODULE Spec2Model ----
(***************************************************************************)
(* Model of the server-readme-reviewer pipeline of olaservo/mcp-misc:      *)
(*   0_identify_server_addition_prs.py  (entry extractor, PR classifier)    *)
(*   2_merge_servers.py                 (merge engine)                      *)
(*                                                                         *)
(* A string is a sequence of characters, each a one-character string.  An  *)
(* element of more than one character stands for that fixed run of text     *)
(* (the title of a section header, the file name in a diff header): no      *)
(* operation of the program splits such a run, and no other character of    *)
(* the alphabet can spell a part of it.                                     *)
(***************************************************************************)
EXTENDS Integers, Sequences, FiniteSets, TLC

(***************************************************************************)
(* Characters and Python's str operations.                                 *)
(***************************************************************************)
NL == "\n"

\* str.isspace(), and the regex class \s
IsSpace(c) == c \in {" ", NL}

\* the regex class \w, on the alphabet of the model
IsWord(c) == c \in {"a", "b", "c", "d", "e", "f", "g", "h", "i", "k", "l", "m",
                    "o", "r", "s", "t", "u", "v", "w", "x", "y",
                    "A", "B", "L", "O", "T", "U"}

\* ord(c): the code point, which orders str comparison
Ord(c) ==
    CASE c = NL -> 10 [] c = " " -> 32 [] c = "\"" -> 34 [] c = "#" -> 35
      [] c = "'" -> 39 [] c = "(" -> 40 [] c = ")" -> 41 [] c = "*" -> 42
      [] c = "+" -> 43 [] c = "-" -> 45 [] c = "/" -> 47 [] c = "<" -> 60
      [] c = "=" -> 61 [] c = ">" -> 62 [] c = "@" -> 64
      [] c = "A" -> 65 [] c = "B" -> 66 [] c = "L" -> 76 [] c = "O" -> 79
      [] c = "T" -> 84 [] c = "U" -> 85
      [] c = "[" -> 91 [] c = "]" -> 93
      [] c = "a" -> 97 [] c = "b" -> 98 [] c = "c" -> 99 [] c = "d" -> 100
      [] c = "e" -> 101 [] c = "f" -> 102 [] c = "g" -> 103 [] c = "h" -> 104
      [] c = "i" -> 105 [] c = "k" -> 107 [] c = "l" -> 108
      [] c = "m" -> 109 [] c = "o" -> 111 [] c = "r" -> 114 [] c = "s" -> 115 [] c = "t" -> 116
      [] c = "u" -> 117 [] c = "v" -> 118 [] c = "w" -> 119 [] c = "x" -> 120
      [] c = "y" -> 121
      [] OTHER -> 127000

\* str.lower() on one character
LowerChar(c) ==
    CASE c = "A" -> "a" [] c = "B" -> "b" [] c = "L" -> "l" [] c = "O" -> "o"
      [] c = "T" -> "t" [] c = "U" -> "u" [] OTHER -> c

\* str.lower()
Lower(s) == [i \in 1..Len(s) |-> LowerChar(s[i])]

\* s[i:] with a 1-based i
From(s, i) == SubSeq(s, i, Len(s))

\* the first position >= i of s holding a character of the set cs, or 0
RECURSIVE FindChar(_, _, _)
FindChar(s, cs, i) ==
    IF i > Len(s) THEN 0
    ELSE IF s[i] \in cs THEN i
    ELSE FindChar(s, cs, i + 1)

\* the first position >= i of s that holds no whitespace (Len(s)+1 if none):
\* where a greedy \s* or \s+ started at i ends
RECURSIVE SkipSpace(_, _)
SkipSpace(s, i) ==
    IF i > Len(s) THEN Len(s) + 1
    ELSE IF ~IsSpace(s[i]) THEN i
    ELSE SkipSpace(s, i + 1)

\* the last position <= i of s that holds no whitespace (0 if none)
RECURSIVE SkipSpaceBack(_, _)
SkipSpaceBack(s, i) ==
    IF i < 1 THEN 0
    ELSE IF ~IsSpace(s[i]) THEN i
    ELSE SkipSpaceBack(s, i - 1)

\* str.lstrip(), str.rstrip(), str.strip()
LStrip(s) == From(s, SkipSpace(s, 1))
RStrip(s) == SubSeq(s, 1, SkipSpaceBack(s, Len(s)))
Strip(s) == SubSeq(s, SkipSpace(s, 1), SkipSpaceBack(s, Len(s)))

\* str.rstrip('\n')
RECURSIVE RStripNL(_)
RStripNL(s) ==
    IF s # <<>> /\ s[Len(s)] = NL THEN RStripNL(SubSeq(s, 1, Len(s) - 1)) ELSE s

\* whether p occurs in s at the 1-based position i
HasAt(s, i, p) ==
    /\ i >= 1
    /\ i + Len(p) - 1 <= Len(s)
    /\ \A k \in 1..Len(p) : s[i + k - 1] = p[k]

\* str.startswith
StartsWith(s, p) == HasAt(s, 1, p)

\* p in s
Contains(s, p) == \E i \in 1..(Len(s) - Len(p) + 1) : HasAt(s, i, p)

\* a < b for str: lexicographic by code point
RECURSIVE StrLess(_, _)
StrLess(a, b) ==
    IF b = <<>> THEN FALSE
    ELSE IF a = <<>> THEN TRUE
    ELSE IF Ord(Head(a)) # Ord(Head(b)) THEN Ord(Head(a)) < Ord(Head(b))
    ELSE StrLess(Tail(a), Tail(b))

\* "".join(parts)
RECURSIVE Join(_)
Join(parts) == IF parts = <<>> THEN <<>> ELSE Head(parts) \o Join(Tail(parts))

(***************************************************************************)
(* 2_merge_servers.py: the texts it works on.                              *)
(***************************************************************************)
\* SERVER_CONFIGS[...]['section_header']; the title is one run of text
CommunityHeader == <<"#", "#", "#", " ", "{globe} Community Servers">>
OfficialHeader == <<"#", "#", "#", " ", "{medal} Official Integrations">>

section_header(server_type) ==
    IF server_type = "community" THEN CommunityHeader ELSE OfficialHeader

H3 == <<"#", "#", "#", " ">>
H2 == <<"#", "#", " ">>
Bullet == <<"-", " ">>
Quote == <<">", " ">>
ImgOpen == <<"<", "i", "m", "g">>
BoldOpen == <<"*", "*", "[">>

\* f.readlines(): the content cut after every line break
RECURSIVE ReadLines(_)
ReadLines(content) ==
    IF content = <<>> THEN <<>>
    ELSE LET j == FindChar(content, {NL}, 1)
         IN  IF j = 0 THEN <<content>>
             ELSE <<SubSeq(content, 1, j)>> \o ReadLines(From(content, j + 1))

\* Where the name's "**[" starts in a stripped line t that matches
\*   ^\s*-\s+(?:<img[^>]*>\s+)?\*\*\[
\* or 0 when it does not match.
EntryHead(t) ==
    IF ~(Len(t) >= 2 /\ t[1] = "-" /\ IsSpace(t[2])) THEN 0
    ELSE LET p == SkipSpace(t, 2)
         IN  IF HasAt(t, p, ImgOpen)
             THEN LET q == FindChar(t, {">"}, p + 4)
                  IN  IF q = 0 \/ q = Len(t) \/ ~IsSpace(t[q + 1]) THEN 0
                      ELSE LET p2 == SkipSpace(t, q + 1)
                           IN  IF HasAt(t, p2, BoldOpen) THEN p2 ELSE 0
             ELSE IF HasAt(t, p, BoldOpen) THEN p ELSE 0

\* Where the "]" closing a name that starts at n0 stands ([^\]]+ then \]), or 0
NameEnd(t, n0) ==
    LET e == FindChar(t, {"]"}, n0) IN IF e > n0 THEN e ELSE 0

extract_server_name_from_line(line) ==
    LET t == Strip(line)
        p == EntryHead(t)
        e == IF p = 0 THEN 0 ELSE NameEnd(t, p + 3)
    IN  IF e # 0 THEN SubSeq(t, p + 3, e - 1) ELSE t

extract_url_from_line(line) ==
    LET t == Strip(line)
        p == EntryHead(t)
        e == IF p = 0 THEN 0 ELSE NameEnd(t, p + 3)
        \* \]\(([^)]+)\)
        f == IF e = 0 \/ ~HasAt(t, e + 1, <<"(">>) THEN 0
             ELSE FindChar(t, {")"}, e + 2)
    IN  IF f > e + 2 THEN SubSeq(t, e + 2, f - 1) ELSE t

\* line.strip().startswith('### ') or line.strip().startswith('## ')
IsSectionBreak(line) ==
    StartsWith(Strip(line), H3) \/ StartsWith(Strip(line), H2)

\* find_servers_section: <<start_idx, end_idx>> as 1-based positions, 0 for
\* None; end_idx is the position of the line that ends the section, or
\* Len(readme_lines) + 1 (Python's len(readme_lines)).
RECURSIVE FindSectionLoop(_, _, _, _)
FindSectionLoop(readme_lines, section_hdr, i, start_idx) ==
    IF i > Len(readme_lines)
    THEN <<start_idx, IF start_idx # 0 THEN Len(readme_lines) + 1 ELSE 0>>
    ELSE IF Contains(readme_lines[i], section_hdr)
    THEN FindSectionLoop(readme_lines, section_hdr, i + 1, i)
    ELSE IF start_idx # 0 /\ IsSectionBreak(readme_lines[i])
    THEN <<start_idx, i>>
    ELSE FindSectionLoop(readme_lines, section_hdr, i + 1, start_idx)

find_servers_section(readme_lines, section_hdr) ==
    FindSectionLoop(readme_lines, section_hdr, 1, 0)

\* The test of lines 178-181: headers, notes, blank lines and anything that
\* is no bullet are not server lines.
IsSkippedLine(line) ==
    LET line_stripped == Strip(line)
    IN  \/ StartsWith(line_stripped, H3)
        \/ StartsWith(line_stripped, Quote)
        \/ line_stripped = <<>>
        \/ ~StartsWith(line_stripped, Bullet)

\* existing_servers: the bullet lines of readme_lines[start_idx:end_idx],
\* each without its line break
RECURSIVE ExistingServers(_, _, _)
ExistingServers(readme_lines, i, end_idx) ==
    IF i >= end_idx THEN <<>>
    ELSE (IF IsSkippedLine(readme_lines[i]) THEN <<>>
          ELSE <<RStripNL(readme_lines[i])>>)
         \o ExistingServers(readme_lines, i + 1, end_idx)

\* DedupLoop comparing the URLs as they are written, case and all
RECURSIVE DedupLoopCaseSensitive(_, _, _, _, _)
DedupLoopCaseSensitive(all_server_lines, i, seen_urls, unique_servers, skipped) ==
    IF i > Len(all_server_lines)
    THEN [unique_servers |-> unique_servers, skipped |-> skipped]
    ELSE LET line == all_server_lines[i]
             url == extract_url_from_line(line)
         IN  IF url \notin seen_urls
             THEN DedupLoopCaseSensitive(all_server_lines, i + 1, seen_urls \cup {url},
                                         Append(unique_servers, line), skipped)
             ELSE DedupLoopCaseSensitive(all_server_lines, i + 1, seen_urls,
                                         unique_servers,
                                         Append(skipped,
                                                [name |-> extract_server_name_from_line(line),
                                                 url |-> url]))

\* DedupLoop keeping the last line with a URL in place of the first
RECURSIVE DedupLoopLastWins(_, _, _, _, _)
DedupLoopLastWins(all_server_lines, i, seen_urls, unique_servers, skipped) ==
    IF i > Len(all_server_lines)
    THEN [unique_servers |-> unique_servers, skipped |-> skipped]
    ELSE LET line == all_server_lines[i]
             url == extract_url_from_line(line)
         IN  IF Lower(url) \notin seen_urls
             THEN DedupLoopLastWins(all_server_lines, i + 1, seen_urls \cup {Lower(url)},
                                    Append(unique_servers, line), skipped)
             ELSE DedupLoopLastWins(all_server_lines, i + 1, seen_urls,
                                    [k \in 1..Len(unique_servers) |->
                                        IF Lower(extract_url_from_line(unique_servers[k]))
                                               = Lower(url)
                                        THEN line ELSE unique_servers[k]],
                                    Append(skipped,
                                           [name |-> extract_server_name_from_line(line),
                                            url |-> url]))

\* The loop of lines 199-209 from its i-th line on: the lines kept and the
\* duplicates reported ("Skipping duplicate URL: name (url)")
RECURSIVE DedupLoop(_, _, _, _, _)
DedupLoop(all_server_lines, i, seen_urls, unique_servers, skipped) ==
    IF i > Len(all_server_lines)
    THEN [unique_servers |-> unique_servers, skipped |-> skipped]
    ELSE LET line == all_server_lines[i]
             url == extract_url_from_line(line)
         IN  IF Lower(url) \notin seen_urls
             THEN DedupLoop(all_server_lines, i + 1, seen_urls \cup {Lower(url)},
                            Append(unique_servers, line), skipped)
             ELSE DedupLoop(all_server_lines, i + 1, seen_urls, unique_servers,
                            Append(skipped,
                                   [name |-> extract_server_name_from_line(line),
                                    url |-> url]))

\* the sort key without its lower()
NameKeyCaseSensitive(line) == extract_server_name_from_line(line)

\* the sort key of line 212
NameKey(line) == Lower(extract_server_name_from_line(line))

\* list.sort(key=...): stable, so a line goes behind every line whose key is
\* not greater than its own
RECURSIVE InsertByKey(_, _)
InsertByKey(sorted, line) ==
    IF sorted = <<>> THEN <<line>>
    ELSE IF StrLess(NameKey(line), NameKey(Head(sorted)))
    THEN <<line>> \o sorted
    ELSE <<Head(sorted)>> \o InsertByKey(Tail(sorted), line)

RECURSIVE SortByName(_)
SortByName(lines) ==
    IF lines = <<>> THEN <<>>
    ELSE InsertByKey(SortByName(SubSeq(lines, 1, Len(lines) - 1)), lines[Len(lines)])

\* lines 217-222: the position of the first bullet after the header, or end_idx
RECURSIVE FirstBullet(_, _, _)
FirstBullet(readme_lines, insert_idx, end_idx) ==
    IF insert_idx < end_idx /\ ~StartsWith(Strip(readme_lines[insert_idx]), Bullet)
    THEN FirstBullet(readme_lines, insert_idx + 1, end_idx)
    ELSE insert_idx

\* What merge_servers_into_readme returns (ok), what the file holds afterwards
\* (content), and what it computed and printed on the way.
\* lines 165-167: the section was not found
SectionNotFound(content) ==
    [ok |-> FALSE, content |-> content, existing_servers |-> <<>>,
     unique_servers |-> <<>>, skipped |-> <<>>]

\* MergeIntoSection putting the list right after the header line
MergeIntoSectionAtHeader(content, readme_lines, start_idx, end_idx, servers, dry_run) ==
    LET existing_servers == ExistingServers(readme_lines, start_idx, end_idx)
        new_server_lines == [k \in 1..Len(servers) |-> servers[k].complete_line]
        dedup == DedupLoop(existing_servers \o new_server_lines, 1, {}, <<>>, <<>>)
        unique_servers == SortByName(dedup.unique_servers)
        new_readme_lines ==
            SubSeq(readme_lines, 1, start_idx)
            \o [k \in 1..Len(unique_servers) |-> Append(unique_servers[k], NL)]
            \o SubSeq(readme_lines, end_idx, Len(readme_lines))
    IN  [ok |-> TRUE,
         content |-> IF dry_run THEN content ELSE Join(new_readme_lines),
         existing_servers |-> existing_servers,
         unique_servers |-> unique_servers,
         skipped |-> dedup.skipped]

\* lines 169-257: the section is readme_lines[start_idx:end_idx]
MergeIntoSection(content, readme_lines, start_idx, end_idx, servers, dry_run) ==
    LET existing_servers == ExistingServers(readme_lines, start_idx, end_idx)
        new_server_lines == [k \in 1..Len(servers) |-> servers[k].complete_line]
        all_server_lines == existing_servers \o new_server_lines
        dedup == DedupLoop(all_server_lines, 1, {}, <<>>, <<>>)
        unique_servers == SortByName(dedup.unique_servers)
        insert_idx == FirstBullet(readme_lines, start_idx + 1, end_idx)
        new_readme_lines ==
            SubSeq(readme_lines, 1, insert_idx - 1)
            \o [k \in 1..Len(unique_servers) |-> Append(unique_servers[k], NL)]
            \o SubSeq(readme_lines, end_idx, Len(readme_lines))
    IN  [ok |-> TRUE,
         content |-> IF dry_run THEN content ELSE Join(new_readme_lines),
         existing_servers |-> existing_servers,
         unique_servers |-> unique_servers,
         skipped |-> dedup.skipped]

\* merge_servers_into_readme taking a missing section for nothing to do
MergeSilentWithoutSection(content, servers, server_type, dry_run) ==
    LET readme_lines == ReadLines(content)
        sec == find_servers_section(readme_lines, section_header(server_type))
    IN  IF sec[1] = 0
        THEN [SectionNotFound(content) EXCEPT !.ok = TRUE]
        ELSE MergeIntoSection(content, readme_lines, sec[1], sec[2], servers, dry_run)

\* merge_servers_into_readme writing the file in a dry run too
MergeWritesInDryRun(content, servers, server_type, dry_run) ==
    LET readme_lines == ReadLines(content)
        sec == find_servers_section(readme_lines, section_header(server_type))
    IN  IF sec[1] = 0
        THEN SectionNotFound(content)
        ELSE MergeIntoSection(content, readme_lines, sec[1], sec[2], servers, FALSE)

\* merge_servers_into_readme on the content of the README file
merge_servers_into_readme(content, servers, server_type, dry_run) ==
    LET readme_lines == ReadLines(content)
        sec == find_servers_section(readme_lines, section_header(server_type))
    IN  IF sec[1] = 0
        THEN SectionNotFound(content)
        ELSE MergeIntoSection(content, readme_lines, sec[1], sec[2], servers, dry_run)

(***************************************************************************)
(* The validation CSV files and collect_valid_servers.                     *)
(***************************************************************************)
Valid == <<"Valid">>
Community == <<"community">>
Official == <<"official">>

\* the type as the text the CSV holds
TypeText(server_type) == IF server_type = "community" THEN Community ELSE Official

\* lines 77-78: the row is processed at all
IsValidRow(row, server_type) ==
    /\ Strip(row.Validation_Status) = Valid
    /\ Strip(row.Category) = TypeText(server_type)

\* no row is skipped for its image
NoImageSkipped(row, server_type) == FALSE

\* line 83: a community row whose line carries an image is skipped
IsImageSkipped(row, server_type) ==
    server_type = "community" /\ Contains(Strip(row.Complete_Line), ImgOpen)

\* lines 87-97: the record appended for a row
ServerOfRow(row) ==
    [pr_number |-> Strip(row.PR_Number),
     original_pr_number |-> Strip(row.Original_PR_Number),
     server_index |-> Strip(row.Server_Index),
     total_servers_in_pr |-> Strip(row.Total_Servers_In_PR),
     server_name |-> Strip(row.Server_Name),
     server_url |-> Strip(row.Server_URL),
     complete_line |-> Strip(row.Complete_Line),
     pr_author |-> Strip(row.PR_Author),
     category |-> Strip(row.Category)]

\* collect_valid_servers over the rows of all CSV files, in file order
RECURSIVE collect_valid_servers(_, _)
collect_valid_servers(rows, server_type) ==
    IF rows = <<>> THEN <<>>
    ELSE (IF IsValidRow(Head(rows), server_type)
             /\ ~IsImageSkipped(Head(rows), server_type)
          THEN <<ServerOfRow(Head(rows))>>
          ELSE <<>>)
         \o collect_valid_servers(Tail(rows), server_type)

(***************************************************************************)
(* 0_identify_server_addition_prs.py: the entry extractor.                 *)
(***************************************************************************)
\* the value None
None == [none |-> TRUE]

Quotes == {"\"", "'"}

\* the first position >= i of s at which p starts, or 0
RECURSIVE Find(_, _, _)
Find(s, p, i) ==
    IF i + Len(p) - 1 > Len(s) THEN 0
    ELSE IF HasAt(s, i, p) THEN i
    ELSE Find(s, p, i + 1)

\* the last position of the run of \w characters that holds position i
RECURSIVE WordEnd(_, _)
WordEnd(s, i) ==
    IF i + 1 <= Len(s) /\ IsWord(s[i + 1]) THEN WordEnd(s, i + 1) ELSE i

\* sep.join(parts)
RECURSIVE JoinWith(_, _)
JoinWith(sep, parts) ==
    IF parts = <<>> THEN <<>>
    ELSE IF Len(parts) = 1 THEN parts[1]
    ELSE parts[1] \o sep \o JoinWith(sep, Tail(parts))

\* A dict is the sequence of its <<key, value>> pairs in insertion order.
DictHas(d, k) == \E i \in 1..Len(d) : d[i][1] = k

\* d.get(k, default)
DictGet(d, k, default) ==
    IF DictHas(d, k) THEN d[CHOOSE i \in 1..Len(d) : d[i][1] = k][2] ELSE default

\* d[k] = v: a key that is there keeps its place
DictSet(d, k, v) ==
    IF DictHas(d, k)
    THEN [i \in 1..Len(d) |-> IF d[i][1] = k THEN <<k, v>> ELSE d[i]]
    ELSE Append(d, <<k, v>>)

\* re.findall(r'(\w+)=(["\'])([^"\']*)\2', content), each match stored under
\* its lower-cased name: the scan of the non-overlapping leftmost matches
\* from position i on
RECURSIVE ParseAttrs(_, _, _)
ParseAttrs(content, i, attributes) ==
    IF i > Len(content) THEN attributes
    ELSE IF ~IsWord(content[i]) THEN ParseAttrs(content, i + 1, attributes)
    ELSE LET e == WordEnd(content, i)
             f == IF e + 2 <= Len(content) /\ content[e + 1] = "="
                     /\ content[e + 2] \in Quotes
                  THEN FindChar(content, Quotes, e + 3)
                  ELSE 0
         IN  IF f # 0 /\ content[f] = content[e + 2]
             THEN ParseAttrs(content, f + 1,
                             DictSet(attributes, Lower(SubSeq(content, i, e)),
                                     SubSeq(content, e + 3, f - 1)))
             ELSE ParseAttrs(content, i + 1, attributes)

parse_img_tag(img_tag_str) ==
    LET stripped == Strip(img_tag_str)
        opened == IF StartsWith(stripped, ImgOpen) THEN From(stripped, 5) ELSE stripped
        content == IF opened # <<>> /\ opened[Len(opened)] = ">"
                   THEN SubSeq(opened, 1, Len(opened) - 1)
                   ELSE opened
    IN  ParseAttrs(content, 1, <<>>)

ordered_attrs ==
    << <<"s", "r", "c">>, <<"a", "l", "t">>, <<"w", "i", "d", "t", "h">>,
       <<"h", "e", "i", "g", "h", "t">>, <<"c", "l", "a", "s", "s">>,
       <<"s", "t", "y", "l", "e">> >>

\* f'{attr}="{value}"'
AttrString(attr, value) == attr \o <<"=", "\"">> \o value \o <<"\"">>

\* the pairs of q whose key is kept, in their order
RECURSIVE SelectPairs(_, _)
SelectPairs(q, keep) ==
    IF q = <<>> THEN <<>>
    ELSE (IF keep[Head(q)[1]] THEN <<Head(q)>> ELSE <<>>) \o SelectPairs(Tail(q), keep)

reconstruct_img_tag(attributes) ==
    LET known == {ordered_attrs[i] : i \in 1..Len(ordered_attrs)}
        keys == {attributes[i][1] : i \in 1..Len(attributes)}
        first == SelectSeq(ordered_attrs, LAMBDA attr : DictHas(attributes, attr))
        rest == SelectPairs(attributes, [k \in keys |-> k \notin known])
        attr_strings ==
            [i \in 1..Len(first) |-> AttrString(first[i], DictGet(attributes, first[i], <<>>))]
            \o [i \in 1..Len(rest) |-> AttrString(rest[i][1], rest[i][2])]
    IN  ImgOpen \o <<" ">> \o JoinWith(<<" ">>, attr_strings) \o <<">">>

\* one match of <img[^>]*> as fix_img_alt_text leaves it
FixedImg(original_img, server_name) ==
    LET attributes == parse_img_tag(original_img)
        alt_text == Strip(DictGet(attributes, <<"a", "l", "t">>, <<>>))
    IN  IF alt_text = <<>>
        THEN reconstruct_img_tag(DictSet(attributes, <<"a", "l", "t">>, server_name))
        ELSE original_img

\* the loop over re.finditer(r'<img[^>]*>', line): the text of line from
\* position i on with every match replaced
RECURSIVE FixLoop(_, _, _)
FixLoop(line, server_name, i) ==
    LET p == Find(line, ImgOpen, i)
        q == IF p = 0 THEN 0 ELSE FindChar(line, {">"}, p + 4)
    IN  IF q = 0 THEN From(line, i)
        ELSE SubSeq(line, i, p - 1)
             \o FixedImg(SubSeq(line, p, q), server_name)
             \o FixLoop(line, server_name, q + 1)

fix_img_alt_text(line, server_name) == FixLoop(line, server_name, 1)

\* Where the icon marker of a stripped line t starts and ends and where the
\* "**[" after it starts, <<p, q, n>>, when t matches
\*   ^\s*-\s+(<img[^>]*>)\s+\*\*\[
\* and <<0, 0, 0>> when it does not.
IconHead(t) ==
    IF ~(Len(t) >= 2 /\ t[1] = "-" /\ IsSpace(t[2])) THEN <<0, 0, 0>>
    ELSE LET p == SkipSpace(t, 2)
             q == IF HasAt(t, p, ImgOpen) THEN FindChar(t, {">"}, p + 4) ELSE 0
             n == IF q = 0 \/ q = Len(t) \/ ~IsSpace(t[q + 1]) THEN 0
                  ELSE SkipSpace(t, q + 1)
         IN  IF n # 0 /\ HasAt(t, n, BoldOpen) THEN <<p, q, n>> ELSE <<0, 0, 0>>

\* Where the "**[" of a stripped line t starts when t matches ^\s*-\s+\*\*\[,
\* and 0 when it does not.
NoIconHead(t) ==
    IF ~(Len(t) >= 2 /\ t[1] = "-" /\ IsSpace(t[2])) THEN 0
    ELSE IF HasAt(t, SkipSpace(t, 2), BoldOpen) THEN SkipSpace(t, 2) ELSE 0

\* The groups of
\*   \*\*\[([^\]]+)\]\(([^)]+)\)\*\*\s*(.*?)\s*-\s*(.+)$
\* matched at position n of the stripped one-line text t, or None.  The lazy
\* (.*?) ends before the first "-" that has text after it; t ends in no
\* whitespace, so that is the first "-" unless it is the last character.
EntryGroups(t, n) ==
    LET e == FindChar(t, {"]"}, n + 3)
        f == IF e > n + 3 /\ HasAt(t, e + 1, <<"(">>)
             THEN FindChar(t, {")"}, e + 2) ELSE 0
        r == IF f > e + 2 /\ HasAt(t, f + 1, <<"*", "*">>) THEN f + 3 ELSE 0
        d == IF r = 0 THEN 0 ELSE FindChar(t, {"-"}, r)
    IN  IF d = 0 \/ d = Len(t) THEN None
        ELSE [server_name |-> SubSeq(t, n + 3, e - 1),
              server_url |-> SubSeq(t, e + 2, f - 1),
              attribution |-> Strip(SubSeq(t, r, d - 1)),
              description |-> From(t, SkipSpace(t, d + 1))]

\* f"**[{server_name}]({server_url})** {attribution} - {description}", the
\* attribution left out when it is empty
EntryText(g) ==
    BoldOpen \o g.server_name \o <<"]", "(">> \o g.server_url \o <<")", "*", "*">>
    \o (IF g.attribution # <<>> THEN <<" ">> \o g.attribution ELSE <<>>)
    \o <<" ", "-", " ">> \o g.description

\* extract_server_info_from_line, on a line without a line break in it (the
\* callers pass the pieces of diff.split('\n'))
extract_server_info_from_line(line) ==
    LET t == Strip(line)
        icon == IconHead(t)
        icon_match == IF icon[3] = 0 THEN None ELSE EntryGroups(t, icon[3])
        no_icon == NoIconHead(t)
        no_icon_match == IF no_icon = 0 THEN None ELSE EntryGroups(t, no_icon)
    IN  IF icon_match # None
        THEN [server_name |-> icon_match.server_name,
              server_url |-> icon_match.server_url,
              description |-> icon_match.description,
              complete_line |->
                  Bullet
                  \o fix_img_alt_text(SubSeq(t, icon[1], icon[2]), icon_match.server_name)
                  \o <<" ">> \o EntryText(icon_match)]
        ELSE IF no_icon_match # None
        THEN [server_name |-> no_icon_match.server_name,
              server_url |-> no_icon_match.server_url,
              description |-> no_icon_match.description,
              complete_line |-> Bullet \o EntryText(no_icon_match)]
        ELSE None

(***************************************************************************)
(* 0_identify_server_addition_prs.py: the PR classifier.                   *)
(***************************************************************************)
\* 'official' as it is looked for in a line; the file name README.md is one
\* run of text
OfficialWord == <<"o", "f", "f", "i", "c", "i", "a", "l">>
ReadmeName == <<"README.md">>
Plus == <<"+">>
TriplePlus == <<"+", "+", "+">>

categorize_server(complete_line) ==
    LET has_icon == Contains(complete_line, ImgOpen)
        has_official_in_title == Contains(Lower(complete_line), OfficialWord)
    IN  IF has_icon \/ has_official_in_title THEN Official ELSE Community

\* x in a list
InList(x, list) == \E i \in 1..Len(list) : list[i] = x

\* categorize_server_by_labels looking at the line only
CategorizeByLineOnly(pr_labels, complete_line) == categorize_server(complete_line)

categorize_server_by_labels(pr_labels, complete_line) ==
    IF InList("add-official-server", pr_labels) THEN Official
    ELSE IF InList("add-community-server", pr_labels) THEN Community
    ELSE categorize_server(complete_line)

\* str(n) for a natural number n
DigitChar(d) ==
    CASE d = 0 -> "0" [] d = 1 -> "1" [] d = 2 -> "2" [] d = 3 -> "3" [] d = 4 -> "4"
      [] d = 5 -> "5" [] d = 6 -> "6" [] d = 7 -> "7" [] d = 8 -> "8" [] d = 9 -> "9"

RECURSIVE ToStr(_)
ToStr(n) ==
    IF n < 10 THEN <<DigitChar(n)>> ELSE Append(ToStr(n \div 10), DigitChar(n % 10))

\* diff.split('\n')
RECURSIVE SplitLines(_)
SplitLines(diff) ==
    LET j == FindChar(diff, {NL}, 1)
    IN  IF j = 0 THEN <<diff>>
        ELSE <<SubSeq(diff, 1, j - 1)>> \o SplitLines(From(diff, j + 1))

\* fetch_pr_diff on what the API call does: its output, or None when the
\* call fails.  An Optional[str] is a record that says whether it is None.
fetch_pr_diff(response) ==
    IF response.ok THEN [is_none |-> FALSE, text |-> response.stdout]
    ELSE [is_none |-> TRUE, text |-> <<>>]

NotApproved(error) ==
    [is_approved |-> FALSE, approval_count |-> 0, approver |-> <<>>,
     approval_date |-> <<>>, error |-> error]

\* check_pr_approval_status on what the API call does: the approving reviews
\* sorted by date, or a failure of the call
check_pr_approval_status(response) ==
    IF ~response.ok THEN NotApproved(TRUE)
    ELSE IF response.approvals = <<>> THEN NotApproved(FALSE)
    ELSE [is_approved |-> TRUE,
          approval_count |-> Len(response.approvals),
          approver |-> response.approvals[1].user,
          approval_date |-> response.approvals[1].submitted_at,
          error |-> FALSE]

\* every line of the diff counts as added
EveryLineAdded(line) == line # <<>>

\* line.startswith('+') and not line.startswith('+++')
IsAddedLine(line) == StartsWith(line, Plus) /\ ~StartsWith(line, TriplePlus)

\* the loop of lines 523-531: the added lines that extract, each with what
\* was extracted from it
RECURSIVE AddedLines(_)
AddedLines(lines) ==
    IF lines = <<>> THEN <<>>
    ELSE LET line == Head(lines)
             server_info == IF IsAddedLine(line)
                            THEN extract_server_info_from_line(Tail(line))
                            ELSE None
         IN  (IF server_info # None THEN << <<Tail(line), server_info>> >> ELSE <<>>)
             \o AddedLines(Tail(lines))

\* NonServerAdditions counting the blank added lines too
RECURSIVE NonServerAdditionsWithBlanks(_)
NonServerAdditionsWithBlanks(lines) ==
    IF lines = <<>> THEN 0
    ELSE (IF /\ IsAddedLine(Head(lines))
             /\ extract_server_info_from_line(Tail(Head(lines))) = None
          THEN 1 ELSE 0)
         + NonServerAdditionsWithBlanks(Tail(lines))

\* the loop of lines 556-561: the added lines that are not blank and do not
\* extract
RECURSIVE NonServerAdditions(_)
NonServerAdditions(lines) ==
    IF lines = <<>> THEN 0
    ELSE (IF /\ IsAddedLine(Head(lines))
             /\ Strip(Tail(Head(lines))) # <<>>
             /\ extract_server_info_from_line(Tail(Head(lines))) = None
          THEN 1 ELSE 0)
         + NonServerAdditions(Tail(lines))

\* what log_rejection appends to rejected_prs
RejectionEntry(pr, reason, details) ==
    [pr_number |-> pr.number, pr_title |-> pr.title, pr_author |-> pr.user,
     rejection_reason |-> reason, analysis_details |-> details,
     labels |-> pr.labels]

\* ServerEntry numbering the entries of a split PR from 0
ServerEntryFromZero(pr, added_lines, approval_info, i) ==
    LET server_info == added_lines[i][2]
        suffix == IF Len(added_lines) > 1 THEN <<"-">> \o ToStr(i - 1) ELSE <<>>
        complete_line == server_info.complete_line
    IN  [pr_number |-> ToStr(pr.number) \o suffix,
         original_pr_number |-> pr.number,
         server_index |-> i,
         total_servers_in_pr |-> Len(added_lines),
         pr_title |-> pr.title,
         complete_line |-> complete_line,
         server_url |-> server_info.server_url,
         server_name |-> server_info.server_name,
         pr_author |-> pr.user,
         category |-> categorize_server_by_labels(pr.labels, complete_line),
         is_approved |-> approval_info.is_approved,
         approval_count |-> approval_info.approval_count,
         approver |-> approval_info.approver,
         approval_date |-> approval_info.approval_date,
         validation_status |-> IF approval_info.is_approved THEN Valid ELSE <<>>,
         confidence_level |-> IF approval_info.is_approved THEN <<"100%">> ELSE <<>>,
         validation_notes |-> IF approval_info.is_approved
                              THEN <<"Pre-approved PR (approved by ">>
                                   \o approval_info.approver \o <<")">>
                              ELSE <<>>]

\* the entry of lines 589-648 for the i-th of the added lines
ServerEntry(pr, added_lines, approval_info, i) ==
    LET server_info == added_lines[i][2]
        suffix == IF Len(added_lines) > 1 THEN <<"-">> \o ToStr(i) ELSE <<>>
        complete_line == server_info.complete_line
    IN  [pr_number |-> ToStr(pr.number) \o suffix,
         original_pr_number |-> pr.number,
         server_index |-> i,
         total_servers_in_pr |-> Len(added_lines),
         pr_title |-> pr.title,
         complete_line |-> complete_line,
         server_url |-> server_info.server_url,
         server_name |-> server_info.server_name,
         pr_author |-> pr.user,
         category |-> categorize_server_by_labels(pr.labels, complete_line),
         is_approved |-> approval_info.is_approved,
         approval_count |-> approval_info.approval_count,
         approver |-> approval_info.approver,
         approval_date |-> approval_info.approval_date,
         validation_status |-> IF approval_info.is_approved THEN Valid ELSE <<>>,
         confidence_level |-> IF approval_info.is_approved THEN <<"100%">> ELSE <<>>,
         validation_notes |-> IF approval_info.is_approved
                              THEN <<"Pre-approved PR (approved by ">>
                                   \o approval_info.approver \o <<")">>
                              ELSE <<>>]

\* a rejection that returns None without a call of log_rejection
RejectedWithoutRecord(pr, added_lines, reason, details) ==
    [returned_none |-> TRUE,
     server_entries |-> <<>>,
     rejections |-> <<>>,
     added_lines |-> added_lines,
     approval_requests |-> 0]

\* What a call returns and does: whether it returned None, the entries it
\* returned otherwise, what it appended to rejected_prs, the added lines it
\* found, and how often it asked for the reviews.
Rejected(pr, added_lines, reason, details) ==
    [returned_none |-> TRUE,
     server_entries |-> <<>>,
     rejections |-> <<RejectionEntry(pr, reason, details)>>,
     added_lines |-> added_lines,
     approval_requests |-> 0]

\* AcceptedEntries asking for the reviews once for every entry
AcceptedEntriesAskingPerEntry(pr, added_lines, approval_info) ==
    [returned_none |-> FALSE,
     server_entries |->
         SelectSeq([i \in 1..Len(added_lines) |->
                       ServerEntry(pr, added_lines, approval_info, i)],
                   LAMBDA entry : Strip(entry.pr_number) # <<>>),
     rejections |-> <<>>,
     added_lines |-> added_lines,
     approval_requests |-> Len(added_lines)]

\* lines 571-664: the PR is accepted; its reviews are asked for once and
\* every added line becomes an entry
AcceptedEntries(pr, added_lines, approval_info) ==
    [returned_none |-> FALSE,
     server_entries |->
         SelectSeq([i \in 1..Len(added_lines) |->
                       ServerEntry(pr, added_lines, approval_info, i)],
                   LAMBDA entry : Strip(entry.pr_number) # <<>>),
     rejections |-> <<>>,
     added_lines |-> added_lines,
     approval_requests |-> 1]

\* CheckAdditions without the limit on the number of entries
CheckAdditionsNoLimit(pr, added_lines, non_server_additions, approval_response, split_multiple_servers, max_servers_per_pr) ==
    IF Len(added_lines) = 0
    THEN Rejected(pr, added_lines, "No Server Entries", <<>>)
    ELSE IF Len(added_lines) > 1 /\ ~split_multiple_servers
    THEN Rejected(pr, added_lines, "Multiple Server Lines", <<Len(added_lines)>>)
    ELSE IF non_server_additions > 2 + Len(added_lines)
    THEN Rejected(pr, added_lines, "Too Many Changes", <<non_server_additions>>)
    ELSE AcceptedEntries(pr, added_lines, check_pr_approval_status(approval_response))

\* lines 533-569: the checks on the added lines found in the diff
CheckAdditions(pr, added_lines, non_server_additions, approval_response, split_multiple_servers, max_servers_per_pr) ==
    IF Len(added_lines) = 0
    THEN Rejected(pr, added_lines, "No Server Entries", <<>>)
    ELSE IF Len(added_lines) > max_servers_per_pr
    THEN Rejected(pr, added_lines, "Exceeds Server Limit",
                  <<Len(added_lines), max_servers_per_pr>>)
    ELSE IF Len(added_lines) > 1 /\ ~split_multiple_servers
    THEN Rejected(pr, added_lines, "Multiple Server Lines", <<Len(added_lines)>>)
    ELSE IF non_server_additions > 2 + Len(added_lines)
    THEN Rejected(pr, added_lines, "Too Many Changes", <<non_server_additions>>)
    ELSE AcceptedEntries(pr, added_lines, check_pr_approval_status(approval_response))

\* lines 519-569 on the lines of the diff
ScanDiff(pr, lines, approval_response, split_multiple_servers, max_servers_per_pr) ==
    CheckAdditions(pr, AddedLines(lines), NonServerAdditions(lines), approval_response,
                   split_multiple_servers, max_servers_per_pr)

\* lines 506-517 on the diff fetched
CheckDiff(pr, diff, approval_response, split_multiple_servers, max_servers_per_pr) ==
    IF diff.is_none \/ diff.text = <<>>
    THEN Rejected(pr, <<>>, "Diff Fetch Failed", <<>>)
    ELSE IF ~Contains(diff.text, ReadmeName)
    THEN Rejected(pr, <<>>, "No README Changes", <<>>)
    ELSE ScanDiff(pr, SplitLines(diff.text), approval_response,
                  split_multiple_servers, max_servers_per_pr)

\* analyze_pr_for_server_addition, given what the two API calls answer
analyze_pr_for_server_addition(pr, diff_response, approval_response, split_multiple_servers, max_servers_per_pr) ==
    IF InList("add-community-resource", pr.labels)
    THEN Rejected(pr, <<>>, "Resource Addition", <<>>)
    ELSE CheckDiff(pr, fetch_pr_diff(diff_response), approval_response,
                   split_multiple_servers, max_servers_per_pr)

\* InsertByServerName comparing the names as they are written
RECURSIVE InsertByServerNameCaseSensitive(_, _)
InsertByServerNameCaseSensitive(sorted, result) ==
    IF sorted = <<>> THEN <<result>>
    ELSE IF StrLess(result.server_name, Head(sorted).server_name)
    THEN <<result>> \o sorted
    ELSE <<Head(sorted)>> \o InsertByServerNameCaseSensitive(Tail(sorted), result)

\* sorted(results, key=lambda x: x['server_name'].lower()): stable
RECURSIVE InsertByServerName(_, _)
InsertByServerName(sorted, result) ==
    IF sorted = <<>> THEN <<result>>
    ELSE IF StrLess(Lower(result.server_name), Lower(Head(sorted).server_name))
    THEN <<result>> \o sorted
    ELSE <<Head(sorted)>> \o InsertByServerName(Tail(sorted), result)

RECURSIVE SortByServerName(_)
SortByServerName(results) ==
    IF results = <<>> THEN <<>>
    ELSE InsertByServerName(SortByServerName(SubSeq(results, 1, Len(results) - 1)),
                            results[Len(results)])

\* lines 739-746 and 752-759: the files of one category, each with its
\* category, its number and the rows write_csv_file writes (sorted again)
RECURSIVE BatchFiles(_, _, _, _)
BatchFiles(servers, server_type, batch_size, batch_num) ==
    IF servers = <<>> THEN <<>>
    ELSE LET batch == SubSeq(servers, 1, IF batch_size < Len(servers)
                                         THEN batch_size ELSE Len(servers))
         IN  <<[category |-> server_type, batch_num |-> batch_num,
                rows |-> SortByServerName(batch)]>>
             \o BatchFiles(From(servers, batch_size + 1), server_type, batch_size,
                           batch_num + 1)

\* write_batched_results for a batch_size >= 1: the files it creates, in the
\* order it creates them
write_batched_results(results, batch_size) ==
    LET official_servers ==
            SortByServerName(SelectSeq(results, LAMBDA r : r.category = Official))
        community_servers ==
            SortByServerName(SelectSeq(results, LAMBDA r : r.category = Community))
    IN  BatchFiles(official_servers, "official", batch_size, 1)
        \o BatchFiles(community_servers, "community", batch_size, 1)

(***************************************************************************)
(* 2_merge_servers.py: the PR description.                                 *)
(***************************************************************************)
Digits == {"0", "1", "2", "3", "4", "5", "6", "7", "8", "9"}

DigitValue(c) ==
    CASE c = "0" -> 0 [] c = "1" -> 1 [] c = "2" -> 2 [] c = "3" -> 3 [] c = "4" -> 4
      [] c = "5" -> 5 [] c = "6" -> 6 [] c = "7" -> 7 [] c = "8" -> 8 [] c = "9" -> 9

\* int(s) for a text of digits
RECURSIVE IntOf(_)
IntOf(s) ==
    IF s = <<>> THEN 0
    ELSE 10 * IntOf(SubSeq(s, 1, Len(s) - 1)) + DigitValue(s[Len(s)])

\* s.split(sep)[0]
SplitHead(s, sep) ==
    LET j == FindChar(s, {sep}, 1) IN IF j = 0 THEN s ELSE SubSeq(s, 1, j - 1)

\* lines 368-371: the PR number without the suffix of a split
original_pr(pr_number) ==
    IF Contains(pr_number, <<"-">>) THEN SplitHead(pr_number, "-") ELSE pr_number

\* lines 337-342
get_original_pr_number(pr_number_str) ==
    IF Contains(pr_number_str, <<"-">>) THEN IntOf(SplitHead(pr_number_str, "-"))
    ELSE IntOf(pr_number_str)

\* the loop of deduplicate_servers_by_url
RECURSIVE DedupServers(_, _, _)
DedupServers(servers, seen_urls, unique_servers) ==
    IF servers = <<>> THEN unique_servers
    ELSE LET url == Lower(Head(servers).server_url)
         IN  IF url \notin seen_urls
             THEN DedupServers(Tail(servers), seen_urls \cup {url},
                               Append(unique_servers, Head(servers)))
             ELSE DedupServers(Tail(servers), seen_urls, unique_servers)

deduplicate_servers_by_url(servers) == DedupServers(servers, {}, <<>>)

\* lines 295-309: the lower-cased URLs of the bullet lines of the section
RECURSIVE ExistingUrls(_, _, _)
ExistingUrls(readme_lines, i, end_idx) ==
    IF i >= end_idx THEN {}
    ELSE (IF IsSkippedLine(readme_lines[i]) THEN {}
          ELSE LET url == extract_url_from_line(RStripNL(readme_lines[i]))
               IN  IF url # <<>> THEN {Lower(url)} ELSE {})
         \cup ExistingUrls(readme_lines, i + 1, end_idx)

\* filter_new_servers_against_readme on the content of the README file
filter_new_servers_against_readme(servers, content, server_type) ==
    LET readme_lines == ReadLines(content)
        sec == find_servers_section(readme_lines, section_header(server_type))
    IN  IF sec[1] = 0 THEN servers
        ELSE LET existing_urls == ExistingUrls(readme_lines, sec[1], sec[2])
             IN  SelectSeq(servers,
                           LAMBDA server : Lower(server.server_url) \notin existing_urls)

\* the sort of line 344: by original PR number, then by lower-cased name;
\* stable
DescriptionBefore(a, b) ==
    LET na == get_original_pr_number(a.pr_number)
        nb == get_original_pr_number(b.pr_number)
    IN  \/ na < nb
        \/ na = nb /\ StrLess(Lower(a.server_name), Lower(b.server_name))

RECURSIVE InsertByPr(_, _)
InsertByPr(sorted, server) ==
    IF sorted = <<>> THEN <<server>>
    ELSE IF DescriptionBefore(server, Head(sorted))
    THEN <<server>> \o sorted
    ELSE <<Head(sorted)>> \o InsertByPr(Tail(sorted), server)

RECURSIVE SortByPr(_)
SortByPr(servers) ==
    IF servers = <<>> THEN <<>>
    ELSE InsertByPr(SortByPr(SubSeq(servers, 1, Len(servers) - 1)), servers[Len(servers)])

\* the fixed texts of the description; a text of more than one character is
\* one run of it
PullUrl == <<"https://github.com/modelcontextprotocol/servers/pull/">>
One == <<"1">>

\* lines 350-360: the title, the sentence and the heading of the list
DescriptionHead(server_type, n) ==
    LET s == IF n # 1 THEN <<"s">> ELSE <<>>
    IN  IF server_type = "community"
        THEN <<"# Add ">> \o ToStr(n) \o <<" Community MCP Server">> \o s \o <<NL, NL>>
             \o <<"This PR adds ">> \o ToStr(n) \o <<" new MCP server">> \o s
             \o <<" to the README, sourced from community pull requests.">> \o <<NL, NL>>
             \o <<"## Added Servers">> \o <<NL, NL>>
        ELSE <<"# Add ">> \o ToStr(n) \o <<" Official MCP Integration">> \o s \o <<NL, NL>>
             \o <<"This PR adds ">> \o ToStr(n) \o <<" new MCP integration">> \o s
             \o <<" to the README, sourced from official integrations.">> \o <<NL, NL>>
             \o <<"## Added Servers">> \o <<NL, NL>>

\* lines 376-379
split_context(server) ==
    IF server.total_servers_in_pr # One
    THEN <<" ", "(", "server ">> \o server.server_index \o <<" of ">>
         \o server.total_servers_in_pr \o <<")">>
    ELSE <<>>

\* line 381: the bullet of a record
DescriptionBullet(server) ==
    Bullet \o BoldOpen \o server.server_name \o <<"]", "(">> \o server.server_url
    \o <<")", "*", "*", " ", "(", "[", "P", "R", " ", "#">> \o original_pr(server.pr_number)
    \o <<"]", "(">> \o PullUrl \o original_pr(server.pr_number) \o <<")", ")">>
    \o split_context(server)
    \o <<" by ", "@">> \o server.pr_author \o <<NL>>

NoServersText == <<"No servers to add.">>
NoNewServersText == <<"No new servers to add (all servers already exist in README).">>

\* generate_pr_description with a readme_path: the text, and the records it
\* lists (unique_servers after the sort)
generate_pr_description(servers, server_type, content) ==
    IF servers = <<>> THEN [text |-> NoServersText, unique_servers |-> <<>>]
    ELSE LET unique_servers ==
                 SortByPr(deduplicate_servers_by_url(
                     filter_new_servers_against_readme(servers, content, server_type)))
         IN  IF unique_servers = <<>>
             THEN [text |-> NoNewServersText, unique_servers |-> <<>>]
             ELSE [text |-> DescriptionHead(server_type, Len(unique_servers))
                            \o Join([k \in 1..Len(unique_servers) |->
                                        DescriptionBullet(unique_servers[k])]),
                   unique_servers |-> unique_servers]

(***************************************************************************)
(* 3_close_original_prs.py: the parser of the description and process_pr.  *)
(***************************************************************************)
\* \d+ from position i: the first position that holds no digit
RECURSIVE DigitsEnd(_, _)
DigitsEnd(t, i) ==
    IF i <= Len(t) /\ t[i] \in Digits THEN DigitsEnd(t, i + 1) ELSE i

\* ([^\]]+)\]\( from position a: the position of the "]" that ends the name, or 0
BulletNameEnd(t, a) ==
    LET e == FindChar(t, {"]"}, a)
    IN  IF e > a /\ HasAt(t, e + 1, <<"(">>) THEN e ELSE 0

\* [^)]+\) from position b: the position of the ")" that ends the URL, or 0
BulletUrlEnd(t, b) ==
    LET f == FindChar(t, {")"}, b) IN IF f > b THEN f ELSE 0

\* \)\*\* \(\[PR #(\d+)\]\( from position f: the position after the digits, or 0
BulletPrEnd(t, f) ==
    LET h == DigitsEnd(t, f + 10)
    IN  IF /\ HasAt(t, f, <<")", "*", "*", " ", "(", "[", "P", "R", " ", "#">>)
           /\ h > f + 10
           /\ HasAt(t, h, <<"]", "(">>)
        THEN h ELSE 0

\* the pattern of line 72 tried at position p of the text
MatchBullet(t, p) ==
    LET e == IF HasAt(t, p, Bullet \o BoldOpen) THEN BulletNameEnd(t, p + 5) ELSE 0
        f == IF e = 0 THEN 0 ELSE BulletUrlEnd(t, e + 2)
        h == IF f = 0 THEN 0 ELSE BulletPrEnd(t, f)
        k == IF h = 0 THEN 0 ELSE BulletUrlEnd(t, h + 2)
    IN  IF k # 0 /\ HasAt(t, k, <<")", ")">>)
        THEN [ok |-> TRUE, server_name |-> SubSeq(t, p + 5, e - 1),
              pr_number |-> SubSeq(t, f + 10, h - 1), next |-> k + 2]
        ELSE [ok |-> FALSE, server_name |-> <<>>, pr_number |-> <<>>, next |-> p + 1]

\* re.findall: the matches from left to right that do not overlap
RECURSIVE FindBullets(_, _)
FindBullets(t, p) ==
    IF p > Len(t) THEN <<>>
    ELSE LET m == MatchBullet(t, p)
         IN  (IF m.ok
              THEN <<[server_name |-> Strip(m.server_name), pr_number |-> IntOf(m.pr_number)]>>
              ELSE <<>>)
             \o FindBullets(t, m.next)

parse_pr_description(description) == FindBullets(description, 1)

\* the result process_pr returns; error "" is None, reason "" is no reason
Outcome(pr_info, success, error, skipped, reason) ==
    [pr_number |-> pr_info.pr_number, success |-> success, error |-> error,
     skipped |-> skipped, reason |-> reason]

\* the requests to GitHub that change something, in the order made, and
\* whether they succeeded
CommentRequest(pr_info, ok) ==
    [kind |-> "comment", pr_number |-> pr_info.pr_number, ok |-> ok]

CloseRequest(pr_info, ok) ==
    [kind |-> "close", pr_number |-> pr_info.pr_number, ok |-> ok]

\* process_pr that goes on to close_pr whatever add_comment_to_pr returned
ProcessCloseRegardless(pr_info, status, dry_run, comment_ok, close_ok) ==
    IF status = None
    THEN [result |-> Outcome(pr_info, FALSE, "Could not fetch PR status", FALSE, ""),
          requests |-> <<>>, closed |-> FALSE]
    ELSE IF status.state = "closed"
    THEN [result |-> Outcome(pr_info, TRUE, "", TRUE, "Already closed"),
          requests |-> <<>>, closed |-> FALSE]
    ELSE IF status.merged
    THEN [result |-> Outcome(pr_info, TRUE, "", TRUE, "Already merged"),
          requests |-> <<>>, closed |-> FALSE]
    ELSE IF dry_run
    THEN [result |-> Outcome(pr_info, TRUE, "", FALSE, ""), requests |-> <<>>,
          closed |-> FALSE]
    ELSE [result |-> IF close_ok THEN Outcome(pr_info, TRUE, "", FALSE, "")
                     ELSE Outcome(pr_info, FALSE,
                                  "Failed to close PR (comment may have been added)",
                                  FALSE, ""),
          requests |-> <<CommentRequest(pr_info, comment_ok), CloseRequest(pr_info, close_ok)>>,
          closed |-> close_ok]

\* process_pr without the look at the live status: it comments on and
\* closes every PR whose status could be fetched
ProcessWithoutSkip(pr_info, status, dry_run, comment_ok, close_ok) ==
    IF status = None
    THEN [result |-> Outcome(pr_info, FALSE, "Could not fetch PR status", FALSE, ""),
          requests |-> <<>>, closed |-> FALSE]
    ELSE IF dry_run
    THEN [result |-> Outcome(pr_info, TRUE, "", FALSE, ""), requests |-> <<>>,
          closed |-> FALSE]
    ELSE IF ~comment_ok
    THEN [result |-> Outcome(pr_info, FALSE, "Failed to add comment", FALSE, ""),
          requests |-> <<CommentRequest(pr_info, FALSE)>>, closed |-> FALSE]
    ELSE [result |-> IF close_ok THEN Outcome(pr_info, TRUE, "", FALSE, "")
                     ELSE Outcome(pr_info, FALSE,
                                  "Failed to close PR (comment may have been added)",
                                  FALSE, ""),
          requests |-> <<CommentRequest(pr_info, TRUE), CloseRequest(pr_info, close_ok)>>,
          closed |-> close_ok]

\* process_pr(pr_info, combined_pr_url, dry_run): status is what
\* check_pr_status returned, comment_ok and close_ok whether the requests of
\* add_comment_to_pr and close_pr succeed. It gives the result, the requests
\* made, and whether the PR got closed.
process_pr(pr_info, status, dry_run, comment_ok, close_ok) ==
    IF status = None
    THEN [result |-> Outcome(pr_info, FALSE, "Could not fetch PR status", FALSE, ""),
          requests |-> <<>>, closed |-> FALSE]
    ELSE IF status.state = "closed"
    THEN [result |-> Outcome(pr_info, TRUE, "", TRUE, "Already closed"),
          requests |-> <<>>, closed |-> FALSE]
    ELSE IF status.merged
    THEN [result |-> Outcome(pr_info, TRUE, "", TRUE, "Already merged"),
          requests |-> <<>>, closed |-> FALSE]
    ELSE ProcessWithoutSkip(pr_info, status, dry_run, comment_ok, close_ok)

(***************************************************************************)
(* The merge stage as a state machine: the README file, the validation CSV *)
(* rows, and what the last run of main() did.                              *)
(***************************************************************************)
VARIABLES
    readme,     \* the content of the README file
    csv_rows,   \* the rows of output/validation_results/*.csv, in file order
    run,        \* the last run of 2_merge_servers.py main()
    prev,       \* what the run before it was
    runs        \* how many runs there have been

mergeVars == <<readme, csv_rows, run, prev, runs>>

\* The extractor applied to a line of a PR, and again to the line it rendered.
VARIABLES
    raw_line,   \* the line given to extract_server_info_from_line
    pr_labels,  \* the labels of the PR the line is of
    extracted,  \* what it returned
    again,      \* what it returned for the complete_line of that
    entry_category    \* the category given to the entry ("" before that)

extractVars == <<raw_line, pr_labels, extracted, again, entry_category>>

\* The identify stage: main() of 0_identify_server_addition_prs.py.
VARIABLES
    all_prs,       \* the open PRs as fetch_all_prs returned them
    args,          \* the command line
    progress,      \* the loop of main(): PRs analysed, accepted, rejected
    results,       \* the entries collected so far
    rejected_prs,  \* the global rejection log
    analysis,      \* the last call of analyze_pr_for_server_addition
    output         \* the batch files written at the end of main()

identifyVars == <<all_prs, args, progress, results, rejected_prs, analysis, output>>

\* The closure stage: main() of 3_close_original_prs.py.
VARIABLES
    close_description,  \* the description of the combined PR, as generated
    close_args,         \* the command line
    close_prs,          \* what parse_pr_description found in it
    github,             \* the live status of the PRs the description names
    gh_requests,        \* the comment and close requests made, in order
    all_results,        \* the results collected by main()
    close_pos           \* where main() is, and how many PRs it has been through

closeVars == <<close_description, close_args, close_prs, github, gh_requests, all_results, close_pos>>

\* The fetch of the open PRs: fetch_all_prs of 0_identify_server_addition_prs.py.
VARIABLES
    remote_pages,   \* the pages GitHub holds, each the numbers of its PRs
    fetch_args,     \* start_page and max_pages (0 is None)
    fetch_page,     \* the page fetch_all_prs is at
    fetched,        \* the numbers of the PRs collected so far
    fetch_retries,  \* the calls fetch_prs_page made of itself for this page
    fetch_status    \* "running", "done", or "exited" after sys.exit(1)

fetchVars == <<remote_pages, fetch_args, fetch_page, fetched, fetch_retries, fetch_status>>

\* find_servers_section of 2_merge_servers.py on its own.
VARIABLES
    section_lines,   \* the lines of a README, as f.readlines() gives them
    section_found    \* what find_servers_section returned for them (<<>> before)

sectionVars == <<section_lines, section_found>>

\* fix_img_alt_text of 0_identify_server_addition_prs.py on its own.
VARIABLES
    repair_prefix,   \* the text of the line before its first icon marker
    repair_parts,    \* the icon markers of the line, each with the text after it
    repair_name,     \* the server name
    repaired         \* what fix_img_alt_text returned for the line

repairVars == <<repair_prefix, repair_parts, repair_name, repaired>>

\* not computed yet
Pending == [pending |-> TRUE]

\* no description was generated
NoDescription == [text |-> <<>>, unique_servers |-> <<>>]

\* the extractor and the identify stage at rest, while another stage runs
ExtractIdle ==
    /\ raw_line = <<>>
    /\ pr_labels = <<>>
    /\ extracted = Pending
    /\ again = Pending
    /\ entry_category = <<>>

\* nothing written yet
NoOutput ==
    [written |-> FALSE, category |-> "none", batch_size |-> 0, filtered |-> <<>>,
     files |-> <<>>]

IdentifyIdle ==
    /\ all_prs = <<>>
    /\ args = [split_multiple_servers |-> TRUE, max_servers_per_pr |-> 10]
    /\ progress = [analyzed |-> 0, accepted_count |-> 0, rejected_count |-> 0]
    /\ results = <<>>
    /\ rejected_prs = <<>>
    /\ analysis = Pending
    /\ output = NoOutput

FetchIdle ==
    /\ remote_pages = <<>>
    /\ fetch_args = [start_page |-> 1, max_pages |-> 0]
    /\ fetch_page = 1
    /\ fetched = <<>>
    /\ fetch_retries = 0
    /\ fetch_status = "running"

SectionIdle ==
    /\ section_lines = <<>>
    /\ section_found = <<>>

\* fix_img_alt_text was not called
NotRepaired == [done |-> FALSE, line |-> <<>>]

RepairIdle ==
    /\ repair_prefix = <<>>
    /\ repair_parts = <<>>
    /\ repair_name = <<>>
    /\ repaired = NotRepaired

CloseIdle ==
    /\ close_description = NoDescription
    /\ close_args = [dry_run |-> FALSE, auto_confirm |-> FALSE, batch_size |-> 1]
    /\ close_prs = <<>>
    /\ github = <<>>
    /\ gh_requests = <<>>
    /\ all_results = <<>>
    /\ close_pos = [phase |-> "start", next |-> 0]

\* ---- the bounded inputs ----
MaxBody == 2    \* lines between the section header and the section's end
MaxRows == 2    \* rows in the CSV files
MaxRuns == 2    \* runs of main() in one behaviour

Ln(s) == Append(s, NL)

\* "- **[name](url)** - d"
EntryLine(name, url) ==
    Bullet \o BoldOpen \o name \o <<"]", "(">> \o url
    \o <<")", "*", "*", " ", "-", " ", "d">>

\* "- <img alt="x"> **[name](url)** - d"
IconEntryLine(name, url) ==
    Bullet \o ImgOpen \o <<" ", "a", "l", "t", "=", "\"", "x", "\"", ">", " ">>
    \o BoldOpen \o name \o <<"]", "(">> \o url
    \o <<")", "*", "*", " ", "-", " ", "d">>

\* what can stand between the header and the end of the section: a note, three
\* entries (out of order by name; two with the same URL up to case) and a
\* bullet that is no entry
BodyPool ==
    { Ln(<<">", " ", "t">>),
      Ln(EntryLine(<<"b">>, <<"u">>)),
      Ln(EntryLine(<<"a">>, <<"v">>)),
      Ln(EntryLine(<<"c">>, <<"U">>)),
      Ln(<<"-", " ", "x">>) }

RECURSIVE SeqsUpTo(_, _)
SeqsUpTo(S, n) ==
    IF n = 0 THEN {<<>>}
    ELSE LET shorter == SeqsUpTo(S, n - 1)
         IN  shorter \cup {Append(q, x) : q \in {r \in shorter : Len(r) = n - 1}, x \in S}

\* another section with an entry, as it follows the section
NextSection == <<Ln(<<"#", "#", " ", "t">>), Ln(EntryLine(<<"a">>, <<"w">>))>>

\* without the line break that ends the file
NoFinalNL(content) ==
    IF content # <<>> /\ content[Len(content)] = NL
    THEN SubSeq(content, 1, Len(content) - 1)
    ELSE content

\* The README files: the section of either type with its body, last in the
\* file (with and without a final line break) or followed by another section.
Documents ==
    UNION { { Join(<<Ln(CommunityHeader)>> \o body),
              NoFinalNL(Join(<<Ln(CommunityHeader)>> \o body)),
              Join(<<Ln(CommunityHeader)>> \o body \o NextSection),
              Join(<<Ln(OfficialHeader)>> \o body \o NextSection) } :
            body \in SeqsUpTo(BodyPool, MaxBody) }

Row(id, name, url, line, category, status) ==
    [PR_Number |-> id, Original_PR_Number |-> id, Server_Index |-> <<"1">>,
     Total_Servers_In_PR |-> <<"1">>, Server_Name |-> name, Server_URL |-> url,
     Complete_Line |-> line, PR_Author |-> <<"k">>, Category |-> category,
     Validation_Status |-> status]

\* Rows as the identify stage writes them and a validator fills them in:
\* two community entries with the same URL up to case (the second with
\* blanks around its cells), an entry judged Invalid, an official entry with
\* its icon, and a community entry that carries an icon.
RowPool ==
    { Row(<<"1">>, <<"c">>, <<"u">>, EntryLine(<<"c">>, <<"u">>), Community, Valid),
      Row(<<"2">>, <<"A">>, <<"U">>, EntryLine(<<"A">>, <<"U">>),
          <<"community", " ">>, <<" ", "Valid">>),
      Row(<<"3">>, <<"d">>, <<"x">>, EntryLine(<<"d">>, <<"x">>), Community, <<"Invalid">>),
      Row(<<"4">>, <<"B">>, <<"l">>, IconEntryLine(<<"B">>, <<"l">>), Official, Valid),
      Row(<<"5">>, <<"b">>, <<"r">>, IconEntryLine(<<"b">>, <<"r">>), Community, Valid) }

\* rows of distinct pull requests
RowLists ==
    {rows \in SeqsUpTo(RowPool, MaxRows) :
        \A i, j \in 1..Len(rows) : i # j => rows[i].PR_Number # rows[j].PR_Number}

NoRun ==
    [kind |-> "none", server_type |-> "none", dry_run |-> FALSE,
     generate |-> FALSE, servers |-> <<>>, merge_called |-> FALSE,
     success |-> FALSE, exit_code |-> 0, before |-> <<>>,
     existing_servers |-> <<>>, unique_servers |-> <<>>, skipped |-> <<>>,
     description |-> NoDescription]

MergeInit ==
    /\ readme \in Documents
    /\ csv_rows \in RowLists
    /\ run = NoRun
    /\ prev = [kind |-> "none", server_type |-> "none", unique_servers |-> <<>>]
    /\ runs = 0
    /\ ExtractIdle
    /\ IdentifyIdle
    /\ CloseIdle
    /\ FetchIdle
    /\ SectionIdle
    /\ RepairIdle

\* main(): what the run does to the README and what it reports.
\*   kind: "nothing" (no valid server, line 483), "described" (dry run with
\*   --generate-pr-description: no merge, line 498), "failed" (merge returned
\*   False, exit(1)), "dry" and "merged".
\*   description: what save_pr_description wrote (lines 493-495), from the
\*   README as it was before the merge of this run.
main(server_type, dry_run, generate) ==
    \E servers \in {collect_valid_servers(csv_rows, server_type)} :
    \E m \in {merge_servers_into_readme(readme, servers, server_type, dry_run)} :
    LET merge_called == servers # <<>> /\ (~dry_run \/ ~generate)
    IN  /\ readme' = IF merge_called THEN m.content ELSE readme
        /\ run' = [kind |-> IF servers = <<>> THEN "nothing"
                            ELSE IF ~merge_called THEN "described"
                            ELSE IF ~m.ok THEN "failed"
                            ELSE IF dry_run THEN "dry" ELSE "merged",
                   server_type |-> server_type,
                   dry_run |-> dry_run,
                   generate |-> generate,
                   servers |-> servers,
                   merge_called |-> merge_called,
                   success |-> merge_called /\ m.ok,
                   exit_code |-> IF merge_called /\ ~m.ok THEN 1 ELSE 0,
                   before |-> readme,
                   existing_servers |-> IF merge_called THEN m.existing_servers ELSE <<>>,
                   unique_servers |-> IF merge_called THEN m.unique_servers ELSE <<>>,
                   skipped |-> IF merge_called THEN m.skipped ELSE <<>>,
                   description |-> IF generate /\ servers # <<>>
                                   THEN generate_pr_description(servers, server_type, readme)
                                   ELSE NoDescription]

MergeRun ==
    /\ runs < MaxRuns
    /\ \E server_type \in {"community", "official"}, dry_run \in BOOLEAN, generate \in BOOLEAN :
          main(server_type, dry_run, generate)
    /\ prev' = [kind |-> run.kind, server_type |-> run.server_type,
                 unique_servers |-> run.unique_servers]
    /\ runs' = runs + 1
    /\ UNCHANGED <<csv_rows, extractVars, identifyVars, closeVars, fetchVars, sectionVars, repairVars>>

MergeNext == MergeRun

MergeSpec == MergeInit /\ [][MergeNext]_mergeVars

\* the merge stage at rest
MergeIdle ==
    /\ readme = <<>>
    /\ csv_rows = <<>>
    /\ run = NoRun
    /\ prev = [kind |-> "none", server_type |-> "none", unique_servers |-> <<>>]
    /\ runs = 0

(***************************************************************************)
(* The extractor on its own: a line of a diff, what is extracted from it,  *)
(* and what is extracted from the line that extraction rendered.           *)
(***************************************************************************)
MaxAttrs == 2    \* attributes in an icon marker

\* attributes as contributors write them: the source, a blank and a filled
\* alt text, a size in single quotes, an attribute with no place in the
\* preferred order, a data- attribute, and a class
AttrPool ==
    { <<"s", "r", "c", "=", "\"", "s", "\"">>,
      <<"a", "l", "t", "=", "\"", "\"">>,
      <<"a", "l", "t", "=", "\"", "x", "\"">>,
      <<"w", "i", "d", "t", "h", "=", "'", "w", "'">>,
      <<"k", "=", "\"", "v", "\"">>,
      <<"d", "a", "t", "a", "-", "a", "l", "t", "=", "\"", "b", "\"">>,
      <<"c", "l", "a", "s", "s", "=", "\"", "c", "\"">> }

\* "<img a1 a2 ...>" followed by a blank
IconMarkers ==
    { ImgOpen \o Join([i \in 1..Len(attrs) |-> <<" ">> \o attrs[i]]) \o <<">", " ">> :
        attrs \in SeqsUpTo(AttrPool, MaxAttrs) }

\* names: plain, with a ">" in it, blank, one that reads as an attribute, and
\* one that spells "official" in mixed case
NamePool ==
    { <<"a">>, <<"a", ">", "b">>, <<" ">>, <<"k", "=", "'", "v", "'">>,
      <<"O", "f", "f", "i", "c", "i", "A", "L">> }

\* what follows the link: a description, an attribution and a description,
\* and a description set without blanks
TailPool ==
    { <<" ", "-", " ", "d">>,
      <<" ", "b", "y", " ", "k", " ", "-", " ", "d">>,
      <<"-", "d">> }

\* the lines given to the extractor: entries with and without an icon
\* marker, and a line that is no entry
LinePool ==
    { Bullet \o marker \o BoldOpen \o name \o <<"]", "(", "u", ")", "*", "*">> \o tail :
        marker \in IconMarkers \cup {<<>>}, name \in NamePool, tail \in TailPool }
    \cup { <<"-", " ", "x">> }

\* the labels of a PR: none, one that names no category, either category
\* label, both
CategoryLabelPool ==
    { <<>>, <<"x">>, <<"add-official-server">>, <<"x", "add-community-server">>,
      <<"add-community-server", "add-official-server">> }

ExtractInit ==
    /\ raw_line \in LinePool
    /\ pr_labels \in CategoryLabelPool
    /\ extracted = Pending
    /\ again = Pending
    /\ entry_category = <<>>
    /\ MergeIdle
    /\ IdentifyIdle
    /\ CloseIdle
    /\ FetchIdle
    /\ SectionIdle
    /\ RepairIdle

\* extract_server_info_from_line(raw_line)
Extract ==
    /\ extracted = Pending
    /\ extracted' = extract_server_info_from_line(raw_line)
    /\ UNCHANGED <<raw_line, pr_labels, again, entry_category, mergeVars, identifyVars, closeVars, fetchVars, sectionVars, repairVars>>

\* the same on the line the first extraction rendered
ExtractAgain ==
    /\ extracted # Pending
    /\ extracted # None
    /\ again = Pending
    /\ again' = extract_server_info_from_line(extracted.complete_line)
    /\ UNCHANGED <<raw_line, pr_labels, extracted, entry_category, mergeVars, identifyVars, closeVars, fetchVars, sectionVars, repairVars>>

\* lines 603-604: the entry extracted is given its category
Categorize ==
    /\ extracted # Pending
    /\ extracted # None
    /\ entry_category = <<>>
    /\ entry_category' = categorize_server_by_labels(pr_labels, extracted.complete_line)
    /\ UNCHANGED <<raw_line, pr_labels, extracted, again, mergeVars, identifyVars, closeVars, fetchVars, sectionVars, repairVars>>

ExtractNext == Extract \/ ExtractAgain \/ Categorize

ExtractSpec == ExtractInit /\ [][ExtractNext]_extractVars

(***************************************************************************)
(* The identify stage as a state machine: main() analyses the PRs it       *)
(* fetched one by one; GitHub answers the request for a PR's diff and for  *)
(* its reviews when the request is made.                                   *)
(***************************************************************************)
MaxPRs == 2      \* PRs fetched by fetch_all_prs
MaxHunks == 2    \* pieces of the README diff of a PR
MaxBatchSize == 2    \* --batch-size

\* "- <img src="s"> **[name](url)** - d": an icon without alt text
BareIconEntryLine(name, url) ==
    Bullet \o ImgOpen \o <<" ", "s", "r", "c", "=", "\"", "s", "\"", ">", " ">>
    \o BoldOpen \o name \o <<"]", "(">> \o url
    \o <<")", "*", "*", " ", "-", " ", "d">>

\* The pieces a diff of the README is made of: an added entry with an icon;
\* an entry added next to an entry that is context and one that is removed;
\* two entries added; three lines of other text added around a blank one;
\* four lines of other text added.
HunkPool ==
    { Ln(Plus \o BareIconEntryLine(<<"B">>, <<"u">>)),
      Ln(<<" ">> \o EntryLine(<<"d">>, <<"x">>)) \o Ln(<<"-">> \o EntryLine(<<"c">>, <<"w">>))
          \o Ln(Plus \o EntryLine(<<"a">>, <<"v">>)),
      Ln(Plus \o EntryLine(<<"a">>, <<"v">>)) \o Ln(Plus \o EntryLine(<<"c">>, <<"w">>)),
      Ln(<<"+", "t">>) \o Ln(<<"+">>) \o Ln(<<"+", "t">>) \o Ln(<<"+", "t">>),
      Ln(<<"+", "t">>) \o Ln(<<"+", "t">>) \o Ln(<<"+", "t">>) \o Ln(<<"+", "t">>) }

\* "--- a/README.md", "+++ b/README.md", "@@"
ReadmeDiffHead ==
    Ln(<<"-", "-", "-", " ", "a", "/">> \o ReadmeName)
    \o Ln(<<"+", "+", "+", " ", "b", "/">> \o ReadmeName)
    \o Ln(<<"@", "@">>)

\* the diff of a PR that adds an entry to another file
OtherDiff ==
    Ln(<<"-", "-", "-", " ", "a", "/", "x">>) \o Ln(<<"+", "+", "+", " ", "b", "/", "x">>)
    \o Ln(<<"@", "@">>) \o Ln(Plus \o EntryLine(<<"a">>, <<"v">>))

\* what the request for a diff can answer: a failure, nothing, a diff of
\* another file, a diff of the README
DiffResponses ==
    { [ok |-> FALSE, stdout |-> <<>>],
      [ok |-> TRUE, stdout |-> <<>>],
      [ok |-> TRUE, stdout |-> OtherDiff] }
    \cup { [ok |-> TRUE, stdout |-> ReadmeDiffHead \o Join(hunks)] :
             hunks \in SeqsUpTo(HunkPool, MaxHunks) }

\* the reviews were not asked for
NoReviews == [ok |-> FALSE, approvals |-> <<>>]

\* what the request for the reviews can answer: a failure, no approval, two
\* approvals (sorted by date)
ReviewResponses ==
    { [ok |-> FALSE, approvals |-> <<>>],
      [ok |-> TRUE, approvals |-> <<>>],
      [ok |-> TRUE, approvals |-> << [user |-> <<"r">>, submitted_at |-> <<"1">>],
                                    [user |-> <<"m">>, submitted_at |-> <<"2">>] >>] }

LabelPool ==
    { <<>>, <<"add-community-resource">>, <<"add-official-server">>,
      <<"x", "add-community-server">> }

PRNumbers == {7, 12}

PRPool ==
    { [number |-> n, title |-> <<"t">>, user |-> <<"k">>, labels |-> labels] :
        n \in PRNumbers, labels \in LabelPool }

\* fetch_all_prs returns each PR number once; the pages are asked for with
\* direction=asc, oldest PR first
PRLists ==
    {prs \in SeqsUpTo(PRPool, MaxPRs) :
        \A i, j \in 1..Len(prs) : i < j => prs[i].number < prs[j].number}

\* --no-split-multiple-servers and --max-servers-per-pr
ArgsPool ==
    { [split_multiple_servers |-> TRUE, max_servers_per_pr |-> 10],
      [split_multiple_servers |-> FALSE, max_servers_per_pr |-> 10],
      [split_multiple_servers |-> TRUE, max_servers_per_pr |-> 1] }

IdentifyInit ==
    /\ all_prs \in PRLists
    /\ args \in ArgsPool
    /\ progress = [analyzed |-> 0, accepted_count |-> 0, rejected_count |-> 0]
    /\ results = <<>>
    /\ rejected_prs = <<>>
    /\ analysis = Pending
    /\ output = NoOutput
    /\ MergeIdle
    /\ ExtractIdle
    /\ CloseIdle
    /\ FetchIdle
    /\ SectionIdle
    /\ RepairIdle

\* One turn of the loop of main() (lines 841-865): the next PR is analysed,
\* its entries are added to the results or it is counted as rejected.
AnalyzePR ==
    /\ progress.analyzed < Len(all_prs)
    /\ \E diff_response \in DiffResponses, review_response \in ReviewResponses :
       \E pr \in {all_prs[progress.analyzed + 1]} :
       \E a \in {analyze_pr_for_server_addition(pr, diff_response, review_response,
                       args.split_multiple_servers, args.max_servers_per_pr)} :
          /\ results' = results \o a.server_entries
          /\ rejected_prs' = rejected_prs \o a.rejections
          /\ progress' =
                [analyzed |-> progress.analyzed + 1,
                 accepted_count |-> progress.accepted_count
                                      + (IF a.server_entries # <<>> THEN 1 ELSE 0),
                 rejected_count |-> progress.rejected_count
                                      + (IF a.server_entries # <<>> THEN 0 ELSE 1)]
          /\ analysis' =
                [pr |-> pr,
                 diff |-> fetch_pr_diff(diff_response),
                 returned_none |-> a.returned_none,
                 server_entries |-> a.server_entries,
                 added_lines |-> a.added_lines,
                 approval_requests |-> a.approval_requests,
                 approval_response |-> IF a.approval_requests > 0 THEN review_response
                                       ELSE NoReviews]
    /\ UNCHANGED <<all_prs, args, output, mergeVars, extractVars, closeVars, fetchVars, sectionVars, repairVars>>

\* The end of main() (lines 867-889), once every PR is analysed: the results
\* are filtered by --category and written in batches of --batch-size; nothing
\* is written when no result is left.
WriteResults ==
    /\ all_prs # <<>>
    /\ progress.analyzed = Len(all_prs)
    /\ ~output.written
    /\ \E category \in {"all", "official", "community"}, batch_size \in 1..MaxBatchSize :
       \E filtered \in {IF category = "all" THEN results
                         ELSE SelectSeq(results,
                                        LAMBDA r : r.category = TypeText(category))} :
          output' = [written |-> TRUE,
                     category |-> category,
                     batch_size |-> batch_size,
                     filtered |-> filtered,
                     files |-> IF filtered # <<>>
                               THEN write_batched_results(filtered, batch_size)
                               ELSE <<>>]
    /\ UNCHANGED <<all_prs, args, progress, results, rejected_prs, analysis,
                   mergeVars, extractVars, closeVars, fetchVars, sectionVars, repairVars>>

IdentifyNext == AnalyzePR \/ WriteResults

IdentifySpec == IdentifyInit /\ [][IdentifyNext]_identifyVars

(***************************************************************************)
(* The closure stage as a state machine: the description of the combined   *)
(* PR, the PRs found in it, and what main() asks of GitHub for each.       *)
(***************************************************************************)
\* the row of entry index of total of a PR that was split
SplitRow(id, index, total, name, url) ==
    [Row(id \o <<"-">> \o index, name, url, EntryLine(name, url), Community, Valid)
        EXCEPT !.Original_PR_Number = id, !.Server_Index = index,
               !.Total_Servers_In_PR = total]

\* Rows as the identify stage writes them: entries of PRs of their own (one
\* with a number of two digits), the two entries of a split PR, an entry
\* whose name is a blank, and an official entry
CloseRowPool ==
    { Row(<<"1">>, <<"c">>, <<"u">>, EntryLine(<<"c">>, <<"u">>), Community, Valid),
      Row(<<"1", "2">>, <<"A">>, <<"v">>, EntryLine(<<"A">>, <<"v">>), Community, Valid),
      SplitRow(<<"6">>, <<"1">>, <<"2">>, <<"b">>, <<"w">>),
      SplitRow(<<"6">>, <<"2">>, <<"2">>, <<"a">>, <<"x">>),
      Row(<<"7">>, <<" ">>, <<"y">>, EntryLine(<<" ">>, <<"y">>), Community, Valid),
      Row(<<"4">>, <<"B">>, <<"l">>, IconEntryLine(<<"B">>, <<"l">>), Official, Valid) }

CloseRowLists ==
    {rows \in SeqsUpTo(CloseRowPool, MaxRows) :
        \A i, j \in 1..Len(rows) : i # j => rows[i].PR_Number # rows[j].PR_Number}

\* the README the description was generated against: both sections, the
\* community section empty or with one entry
CloseDocuments ==
    { Join(<<Ln(CommunityHeader), Ln(OfficialHeader)>>),
      Join(<<Ln(CommunityHeader), Ln(EntryLine(<<"c">>, <<"u">>)), Ln(OfficialHeader)>>) }

\* what check_pr_status can return: None, or the state and the merged flag
StatusPool ==
    { None,
      [state |-> "open", merged |-> FALSE],
      [state |-> "closed", merged |-> FALSE],
      [state |-> "closed", merged |-> TRUE],
      [state |-> "open", merged |-> TRUE] }

\* the PRs the records of a description came from
DescribedPRs(description) ==
    {IntOf(description.unique_servers[k].original_pr_number) :
        k \in 1..Len(description.unique_servers)}

CloseInit ==
    /\ \E rows \in CloseRowLists, server_type \in {"community", "official"},
          content \in CloseDocuments :
          close_description =
              generate_pr_description(collect_valid_servers(rows, server_type),
                                      server_type, content)
    /\ close_args \in [dry_run : BOOLEAN, auto_confirm : BOOLEAN, batch_size : 1..MaxBatchSize]
    /\ close_prs = <<>>
    /\ github \in [DescribedPRs(close_description) -> StatusPool]
    /\ gh_requests = <<>>
    /\ all_results = <<>>
    /\ close_pos = [phase |-> "start", next |-> 0]
    /\ MergeIdle
    /\ ExtractIdle
    /\ IdentifyIdle
    /\ FetchIdle
    /\ SectionIdle
    /\ RepairIdle

\* check_pr_status(pr_number)
check_pr_status(pr_number) ==
    IF pr_number \in DOMAIN github THEN github[pr_number] ELSE None

\* main() up to the batches: the description is fetched (stripped) and
\* parsed; without PRs it exits with 1; without --dry-run and --auto-confirm
\* the user is asked and may cancel.
CloseMain ==
    /\ close_pos.phase = "start"
    /\ \E found \in {parse_pr_description(Strip(close_description.text))} :
       \E response \in (IF ~close_args.dry_run /\ ~close_args.auto_confirm /\ found # <<>>
                        THEN BOOLEAN ELSE {TRUE}) :
          /\ close_prs' = found
          /\ close_pos' = [phase |-> IF found = <<>> THEN "no_prs"
                                     ELSE IF response THEN "processing" ELSE "cancelled",
                           next |-> 0]
    /\ UNCHANGED <<close_description, close_args, github, gh_requests, all_results,
                   mergeVars, extractVars, identifyVars, fetchVars, sectionVars, repairVars>>

\* process_pr_batch asked at the start of a batch and the user declined
SkipBatch ==
    /\ close_pos.phase = "processing"
    /\ close_pos.next < Len(close_prs)
    /\ close_pos.next % close_args.batch_size = 0
    /\ ~close_args.auto_confirm /\ ~close_args.dry_run
    /\ close_pos' = [close_pos EXCEPT !.next =
                        IF @ + close_args.batch_size < Len(close_prs)
                        THEN @ + close_args.batch_size ELSE Len(close_prs)]
    /\ UNCHANGED <<close_description, close_args, close_prs, github, gh_requests,
                   all_results, mergeVars, extractVars, identifyVars, fetchVars, sectionVars, repairVars>>

\* one turn of the loop of process_pr_batch: process_pr for the next PR
ProcessPR ==
    /\ close_pos.phase = "processing"
    /\ close_pos.next < Len(close_prs)
    /\ \E comment_ok \in BOOLEAN, close_ok \in BOOLEAN :
       \E pr_info \in {close_prs[close_pos.next + 1]} :
       \E r \in {process_pr(pr_info, check_pr_status(pr_info.pr_number),
                            close_args.dry_run, comment_ok, close_ok)} :
          /\ all_results' = Append(all_results, r.result)
          /\ gh_requests' = gh_requests \o r.requests
          /\ github' = IF r.closed
                       THEN [github EXCEPT ![pr_info.pr_number].state = "closed"]
                       ELSE github
    /\ close_pos' = [close_pos EXCEPT !.next = @ + 1]
    /\ UNCHANGED <<close_description, close_args, close_prs, mergeVars, extractVars,
                   identifyVars, fetchVars, sectionVars, repairVars>>

CloseNext == CloseMain \/ SkipBatch \/ ProcessPR

CloseSpec == CloseInit /\ [][CloseNext]_closeVars

(***************************************************************************)
(* The fetch of the PRs as a state machine: fetch_all_prs asks for page     *)
(* after page, and fetch_prs_page calls itself after a rate limit.         *)
(***************************************************************************)
MaxPages == 2      \* pages GitHub holds
MaxRetries == 3    \* calls of fetch_prs_page by itself that are followed

\* pages of one or two PRs; a PR can show up on two pages when the list
\* moves between the requests
PagePool == {<<1>>, <<1, 2>>, <<2, 3>>}

FetchInit ==
    /\ remote_pages \in SeqsUpTo(PagePool, MaxPages)
    /\ fetch_args \in [start_page : 1..2, max_pages : 0..2]
    /\ fetch_page = fetch_args.start_page
    /\ fetched = <<>>
    /\ fetch_retries = 0
    /\ fetch_status = "running"
    /\ MergeIdle
    /\ ExtractIdle
    /\ IdentifyIdle
    /\ CloseIdle
    /\ SectionIdle
    /\ RepairIdle

\* lines 460-470: the PRs of a page whose number was not seen before
RECURSIVE NewPRs(_, _)
NewPRs(prs_of_page, processed_pr_numbers) ==
    IF prs_of_page = <<>> THEN <<>>
    ELSE IF Head(prs_of_page) \in processed_pr_numbers
    THEN NewPRs(Tail(prs_of_page), processed_pr_numbers)
    ELSE <<Head(prs_of_page)>>
         \o NewPRs(Tail(prs_of_page), processed_pr_numbers \cup {Head(prs_of_page)})

\* the limit of pages is reached (lines 450-452)
PageLimitReached ==
    fetch_args.max_pages # 0
        /\ fetch_page - fetch_args.start_page + 1 > fetch_args.max_pages

\* One turn of the loop of fetch_all_prs with a call of fetch_prs_page that
\* is answered: with the page, with nothing or with text that is no JSON
\* (both give []), or with an error that is no rate limit (sys.exit(1)).
FetchPage ==
    /\ fetch_status = "running"
    /\ \E answer \in {"page", "error", "not json"} :
       \E page_prs \in {IF answer = "page" /\ fetch_page <= Len(remote_pages)
                        THEN remote_pages[fetch_page] ELSE <<>>} :
          IF PageLimitReached
          THEN /\ fetch_status' = "done"
               /\ UNCHANGED <<fetch_page, fetched, fetch_retries>>
          ELSE IF answer = "error"
          THEN /\ fetch_status' = "exited"
               /\ UNCHANGED <<fetch_page, fetched, fetch_retries>>
          ELSE IF page_prs = <<>>
          THEN /\ fetch_status' = "done"
               /\ fetch_retries' = 0
               /\ UNCHANGED <<fetch_page, fetched>>
          ELSE /\ fetched' = fetched \o NewPRs(page_prs, {fetched[k] : k \in 1..Len(fetched)})
               /\ fetch_page' = fetch_page + 1
               /\ fetch_retries' = 0
               /\ UNCHANGED fetch_status
    /\ UNCHANGED <<remote_pages, fetch_args, mergeVars, extractVars, identifyVars, closeVars, sectionVars, repairVars>>

\* lines 341-344: the request failed with "rate limit" in its stderr;
\* fetch_prs_page sleeps 60 seconds and calls itself for the same page
RateLimited ==
    /\ fetch_status = "running"
    /\ ~PageLimitReached
    /\ fetch_retries < MaxRetries
    /\ fetch_retries' = fetch_retries + 1
    /\ UNCHANGED <<remote_pages, fetch_args, fetch_page, fetched, fetch_status,
                   mergeVars, extractVars, identifyVars, closeVars, sectionVars, repairVars>>

FetchNext == FetchPage \/ RateLimited

FetchSpec == FetchInit /\ [][FetchNext]_fetchVars

(***************************************************************************)
(* find_servers_section on its own: the lines of a README and the bounds   *)
(* of the community section found in them.                                 *)
(***************************************************************************)
MaxAfter == 3    \* lines after the header of the section

\* what can follow the header: headers of rank 1 to 4, one of them
\* indented, a note and an entry
AfterPool ==
    { Ln(<<"#", " ", "t">>),
      Ln(<<"#", "#", " ", "t">>),
      Ln(<<"#", "#", "#", " ", "t">>),
      Ln(<<"#", "#", "#", "#", " ", "t">>),
      Ln(<<" ", "#", "#", " ", "t">>),
      Ln(<<">", " ", "t">>),
      Ln(EntryLine(<<"a">>, <<"v">>)) }

SectionInit ==
    /\ \E after \in SeqsUpTo(AfterPool, MaxAfter) :
          section_lines = <<Ln(CommunityHeader)>> \o after
    /\ section_found = <<>>
    /\ MergeIdle
    /\ ExtractIdle
    /\ IdentifyIdle
    /\ CloseIdle
    /\ FetchIdle
    /\ RepairIdle

FindSection ==
    /\ section_found = <<>>
    /\ section_found' = find_servers_section(section_lines, section_header("community"))
    /\ UNCHANGED <<section_lines, mergeVars, extractVars, identifyVars, closeVars, fetchVars, repairVars>>

SectionNext == FindSection

SectionSpec == SectionInit /\ [][SectionNext]_sectionVars

(***************************************************************************)
(* fix_img_alt_text on its own: a line with several icon markers and the   *)
(* line it is repaired to.                                                 *)
(***************************************************************************)
MaxMarkers == 3    \* icon markers in a line

\* icon markers: without alt text, with a blank one, with alt text, with a
\* data-alt attribute and no alt, and with an apostrophe in its alt text
MarkerPool ==
    { ImgOpen \o <<" ", "s", "r", "c", "=", "\"", "s", "\"", ">">>,
      ImgOpen \o <<" ", "a", "l", "t", "=", "\"", " ", "\"", " ", "s", "r", "c", "=", "'", "s", "'", ">">>,
      ImgOpen \o <<" ", "a", "l", "t", "=", "\"", "x", "\"", ">">>,
      ImgOpen \o <<" ", "d", "a", "t", "a", "-", "a", "l", "t", "=", "\"", "b", "\"", ">">>,
      ImgOpen \o <<" ", "a", "l", "t", "=", "\"", "o", "'", "k", "\"", ">">> }

\* the text after a marker: none, and words
BetweenPool == { <<>>, <<" ", "t", " ">> }

\* a short name and a long one
RepairNames == { <<"a">>, <<"n", "a", "m", "e">> }

RepairParts ==
    { parts \in SeqsUpTo([marker : MarkerPool, text : BetweenPool], MaxMarkers) :
        parts # <<>> }

\* the line of the markers and the texts
LineOf(prefix, parts) ==
    prefix \o Join([i \in 1..Len(parts) |-> parts[i].marker \o parts[i].text])

RepairInit ==
    /\ repair_prefix \in {<<>>, Bullet}
    /\ repair_parts \in RepairParts
    /\ repair_name \in RepairNames
    /\ repaired = NotRepaired
    /\ MergeIdle
    /\ ExtractIdle
    /\ IdentifyIdle
    /\ CloseIdle
    /\ FetchIdle
    /\ SectionIdle

\* fix_img_alt_text(line, server_name)
Repair ==
    /\ ~repaired.done
    /\ repaired' = [done |-> TRUE,
                     line |-> fix_img_alt_text(LineOf(repair_prefix, repair_parts),
                                               repair_name)]
    /\ UNCHANGED <<repair_prefix, repair_parts, repair_name, mergeVars, extractVars, identifyVars, closeVars, fetchVars, sectionVars>>

RepairNext == Repair

RepairSpec == RepairInit /\ [][RepairNext]_repairVars

(***************************************************************************)
(* What the claims speak of.                                               *)
(***************************************************************************)
\* the entry lines of the section of a type, as a reader of the file finds them
SectionEntries(content, server_type) ==
    LET readme_lines == ReadLines(content)
        sec == find_servers_section(readme_lines, section_header(server_type))
    IN  IF sec[1] = 0 THEN <<>> ELSE ExistingServers(readme_lines, sec[1], sec[2])

\* two lines whose URLs are equal when case is ignored
SameUrl(a, b) == Lower(extract_url_from_line(a)) = Lower(extract_url_from_line(b))

\* no line of the file holds the header of the section
HeaderMissing(content, server_type) ==
    \A i \in 1..Len(ReadLines(content)) :
        ~Contains(ReadLines(content)[i], section_header(server_type))

Range(q) == {q[i] : i \in 1..Len(q)}

\* C1: a merge run again with the same records on the file the first merge
\* wrote leaves that file as it is.
C1_MergeIdempotent ==
    (run.kind = "merged" /\ prev.kind = "merged" /\ prev.server_type = run.server_type)
        => readme = run.before

\* C2: after a successful merge no two entry lines of the section have URLs
\* that are equal when case is ignored.
C2_NoDuplicateUrls ==
    run.kind = "merged" =>
        LET e == SectionEntries(readme, run.server_type)
        IN  \A i, j \in 1..Len(e) : i # j => ~SameUrl(e[i], e[j])

C2_Witness ==
    /\ run.kind = "merged"
    /\ Len(SectionEntries(readme, run.server_type)) >= 2
    /\ \E k \in 1..Len(run.servers), x \in Range(run.existing_servers) :
          /\ SameUrl(run.servers[k].complete_line, x)
          /\ extract_url_from_line(run.servers[k].complete_line) # extract_url_from_line(x)

\* C3: after a successful merge the entry lines of the section are in
\* non-decreasing order of their names, case ignored.
C3_SortedByName ==
    run.kind = "merged" =>
        LET e == SectionEntries(readme, run.server_type)
        IN  \A i, j \in 1..Len(e) :
                i < j => ~StrLess(Lower(extract_server_name_from_line(e[j])),
                                  Lower(extract_server_name_from_line(e[i])))

C3_Witness ==
    /\ run.kind = "merged"
    /\ Len(run.existing_servers) >= 2
    /\ StrLess(Lower(extract_server_name_from_line(run.existing_servers[2])),
               Lower(extract_server_name_from_line(run.existing_servers[1])))
    /\ \E k \in 1..Len(run.servers) :
          run.servers[k].complete_line \in Range(SectionEntries(readme, run.server_type))

\* the lines a run put through the deduplication: the section's, then the records'
AllServerLines(r) ==
    r.existing_servers \o [k \in 1..Len(r.servers) |-> r.servers[k].complete_line]

\* the i-th line is the first with its URL
IsFirstWithUrl(all, i) == \A j \in 1..(i - 1) : ~SameUrl(all[j], all[i])

\* how often x occurs in the sequence q
Count(q, x) == Cardinality({i \in 1..Len(q) : q[i] = x})

\* C4: of the lines with one URL (case ignored) the first in iteration order
\* (the section's lines, then the records in input order) is kept as it is,
\* and every later one is dropped and reported as a duplicate; so a record
\* whose URL an entry of the section has leaves that entry and is skipped.
C4_FirstOccurrenceWins ==
    run.kind \in {"merged", "dry"} =>
        LET all == AllServerLines(run)
            firsts == {i \in 1..Len(all) : IsFirstWithUrl(all, i)}
            later == (1..Len(all)) \ firsts
        IN  /\ Len(run.unique_servers) = Cardinality(firsts)
            /\ Len(run.skipped) = Cardinality(later)
            /\ \A i \in firsts :
                  Count(run.unique_servers, all[i])
                      = Cardinality({j \in firsts : all[j] = all[i]})
            /\ \A i \in later :
                  Count(run.skipped, [name |-> extract_server_name_from_line(all[i]),
                                      url |-> extract_url_from_line(all[i])])
                      = Cardinality({j \in later :
                            /\ extract_server_name_from_line(all[j])
                                 = extract_server_name_from_line(all[i])
                            /\ extract_url_from_line(all[j]) = extract_url_from_line(all[i])})
            /\ run.kind = "merged" =>
                  \A x \in Range(SectionEntries(readme, run.server_type)) :
                      \E i \in firsts : all[i] = x

\* a record is dropped for an entry of the section, and another for a record before it
C4_Witness ==
    /\ run.kind = "merged"
    /\ Len(run.skipped) = 2
    /\ Len(run.servers) = 2
    /\ Len(run.existing_servers) = 1
    /\ run.existing_servers[1] \in Range(SectionEntries(readme, run.server_type))
    /\ run.servers[1].complete_line \notin Range(SectionEntries(readme, run.server_type))

\* C5: a merge that does not find the header of its section fails: it
\* returns failure, the run exits with 1, and the file is as it was.
C5_MissingHeaderFails ==
    (run.merge_called /\ HeaderMissing(run.before, run.server_type))
        => /\ run.kind = "failed"
           /\ ~run.success
           /\ run.exit_code = 1
           /\ readme = run.before

C5_Witness ==
    /\ run.merge_called
    /\ HeaderMissing(run.before, run.server_type)
    /\ run.servers # <<>>

\* C6: a dry run leaves the file as it was, and the merge run next on the
\* same inputs computes the list and the count the dry run computed.
C6_DryRunWritesNothing ==
    /\ run.kind = "dry" => readme = run.before
    /\ (prev.kind = "dry" /\ run.kind = "merged" /\ run.server_type = prev.server_type)
          => run.unique_servers = prev.unique_servers

C6_Witness ==
    /\ prev.kind = "dry"
    /\ run.kind = "merged"
    /\ run.server_type = prev.server_type
    /\ readme # run.before
    /\ Len(run.unique_servers) >= 2

\* the row a collected record was read from
RowsOf(server) == {i \in 1..Len(csv_rows) : Strip(csv_rows[i].PR_Number) = server.pr_number}

\* has an icon marker
HasIcon(line) == Contains(line, ImgOpen)

\* C7 as stated: a record is merged only if its status is exactly Valid and
\* its category is the section's, and into the community section only if
\* its line has no icon marker.
C7_EligibleExactly ==
    \A k \in 1..Len(run.servers) :
        \E i \in RowsOf(run.servers[k]) :
            /\ csv_rows[i].Validation_Status = Valid
            /\ csv_rows[i].Category = TypeText(run.server_type)
            /\ run.server_type = "community" => ~HasIcon(csv_rows[i].Complete_Line)

\* C7 amended: the status and the category are compared with the blanks
\* around them trimmed; and the lines a merge adds to a section are the
\* lines of such records only.
C7_EligibleTrimmed ==
    /\ \A k \in 1..Len(run.servers) :
          \E i \in RowsOf(run.servers[k]) :
              /\ Strip(csv_rows[i].Validation_Status) = Valid
              /\ Strip(csv_rows[i].Category) = TypeText(run.server_type)
              /\ run.server_type = "community" => ~HasIcon(csv_rows[i].Complete_Line)
    /\ run.kind = "merged" =>
          \A x \in Range(SectionEntries(readme, run.server_type)) :
              \/ x \in Range(run.existing_servers)
              \/ \E i \in 1..Len(csv_rows) :
                    /\ Strip(csv_rows[i].Complete_Line) = x
                    /\ Strip(csv_rows[i].Validation_Status) = Valid
                    /\ Strip(csv_rows[i].Category) = TypeText(run.server_type)
                    /\ run.server_type = "community" => ~HasIcon(x)

\* a community merge that took one row and left out the row with an icon
C7_Witness ==
    /\ run.kind = "merged"
    /\ run.server_type = "community"
    /\ Len(run.servers) = 1
    /\ Len(csv_rows) = 2
    /\ \E i \in 1..2 :
          /\ HasIcon(csv_rows[i].Complete_Line)
          /\ Strip(csv_rows[i].Validation_Status) = Valid
          /\ Strip(csv_rows[i].Category) = Community
          /\ Strip(csv_rows[i].Complete_Line)
                \notin Range(SectionEntries(readme, "community"))

\* the first extraction succeeded on a line of the icon shape
IconExtracted ==
    /\ extracted # Pending
    /\ extracted # None
    /\ IconHead(Strip(raw_line))[3] # 0

AltName == <<"a", "l", "t">>

\* The text carries an alt attribute, as a reader of HTML finds it (the name
\* alt after a blank, "=", a quoted value), whose value is not blank.
HasAltText(text) ==
    \E i \in 1..Len(text) :
        /\ IsSpace(text[i])
        /\ HasAt(Lower(text), i + 1, AltName \o <<"=">>)
        /\ i + 5 <= Len(text)
        /\ text[i + 5] \in Quotes
        /\ LET f == FindChar(text, {text[i + 5]}, i + 6)
           IN  f # 0 /\ Strip(SubSeq(text, i + 6, f - 1)) # <<>>

\* the rendered line opens with the rewritten marker: src if there is one,
\* then the name as alt text
RewrittenWithName(rendered, name) ==
    \E src \in {<<>>, <<"s", "r", "c", "=", "\"", "s", "\"", " ">>} :
        StartsWith(rendered,
                   Bullet \o ImgOpen \o <<" ">> \o src
                   \o <<"a", "l", "t", "=", "\"">> \o name \o <<"\"">>)

\* C8: when a line extracts, extracting again from the line it rendered
\* succeeds and gives the same name, URL, description and rendered line.
C8_ExtractIdempotent ==
    again # Pending => again = extracted

\* C9: when a line extracts through the icon shape, the marker of the
\* rendered line has alt text that is not blank; and a marker that had no
\* alt text, or a blank one, is rewritten with the name as alt text, src
\* first and alt second.
C9_IconAltNotBlank ==
    IconExtracted =>
        /\ HasAltText(extracted.complete_line)
        /\ ~HasAltText(raw_line)
              => RewrittenWithName(extracted.complete_line, extracted.server_name)

\* the lines of a diff that are additions (a "+" first, but not "+++") and
\* whose text after the "+" extracts
ExtractableAdded(diff) ==
    SelectSeq(SplitLines(diff),
              LAMBDA l : /\ l # <<>>
                         /\ l[1] = "+"
                         /\ ~(Len(l) >= 3 /\ l[2] = "+" /\ l[3] = "+")
                         /\ extract_server_info_from_line(Tail(l)) # None)

\* a removed or a context line of the diff whose text extracts
HasOtherEntryLine(diff) ==
    \E i \in 1..Len(SplitLines(diff)) :
        LET l == SplitLines(diff)[i]
        IN  /\ l # <<>>
            /\ l[1] \in {"-", " "}
            /\ extract_server_info_from_line(Tail(l)) # None

\* C10: for an accepted PR there are as many entries as added lines that
\* extract, the k-th entry is what the k-th of those lines extracts to, and
\* so no entry is of a removed, a context or a metadata line.
C10_EntriesAreAddedLines ==
    (analysis # Pending /\ ~analysis.returned_none) =>
        LET ext == ExtractableAdded(analysis.diff.text)
        IN  /\ Len(analysis.server_entries) = Len(ext)
            /\ Len(results) >= Len(ext)
            /\ SubSeq(results, Len(results) - Len(ext) + 1, Len(results))
                  = analysis.server_entries
            /\ \A k \in 1..Len(ext) :
                  LET info == extract_server_info_from_line(Tail(ext[k]))
                      entry == analysis.server_entries[k]
                  IN  /\ entry.complete_line = info.complete_line
                      /\ entry.server_name = info.server_name
                      /\ entry.server_url = info.server_url
                      /\ entry.server_index = k

\* a PR accepted with two different entries whose diff also has a removed or
\* a context line that reads as an entry
C10_Witness ==
    /\ analysis # Pending
    /\ ~analysis.returned_none
    /\ Len(analysis.server_entries) = 2
    /\ analysis.server_entries[1].server_name # analysis.server_entries[2].server_name
    /\ HasOtherEntryLine(analysis.diff.text)

\* C11: an accepted PR with one entry gives it the PR number as it is; with
\* n > 1 entries the i-th entry, in the order of the diff, is named
\* "number-i" for i = 1..n; and the part of every entry's identifier before
\* the "-" is the number of its PR, as generate_pr_description reads it.
C11_DisplayIdentifiers ==
    (analysis # Pending /\ ~analysis.returned_none) =>
        LET entries == analysis.server_entries
            n == Len(entries)
            id == ToStr(analysis.pr.number)
            ext == ExtractableAdded(analysis.diff.text)
        IN  /\ n >= 1
            /\ n = Len(ext)
            /\ n = 1 => entries[1].pr_number = id
            /\ n > 1 => \A i \in 1..n : entries[i].pr_number = id \o <<"-">> \o ToStr(i)
            /\ \A i \in 1..n :
                  /\ entries[i].complete_line
                        = extract_server_info_from_line(Tail(ext[i])).complete_line
                  /\ original_pr(entries[i].pr_number) = id
                  /\ get_original_pr_number(entries[i].pr_number) = analysis.pr.number
                  /\ entries[i].original_pr_number = analysis.pr.number

\* a PR with a number of two digits accepted with three entries, not all of
\* the same line
C11_Witness ==
    /\ analysis # Pending
    /\ ~analysis.returned_none
    /\ analysis.pr.number >= 10
    /\ Len(analysis.server_entries) = 3
    /\ analysis.server_entries[1].server_name # analysis.server_entries[3].server_name

\* the PR analysed last was rejected, and with which reason
WasRejected == analysis # Pending /\ analysis.returned_none

LastReason == rejected_prs[Len(rejected_prs)].rejection_reason

\* the diff of the PR analysed last was searched for entries: the PR is no
\* resource addition and its diff was fetched and names README.md
DiffScanned ==
    /\ analysis # Pending
    /\ ~InList("add-community-resource", analysis.pr.labels)
    /\ ~analysis.diff.is_none
    /\ Contains(analysis.diff.text, ReadmeName)

\* the added lines of a diff that are not blank and do not extract
NoiseAdded(diff) ==
    SelectSeq(SplitLines(diff),
              LAMBDA l : /\ l # <<>>
                         /\ l[1] = "+"
                         /\ ~(Len(l) >= 3 /\ l[2] = "+" /\ l[3] = "+")
                         /\ Strip(Tail(l)) # <<>>
                         /\ extract_server_info_from_line(Tail(l)) = None)

\* C12: a PR is rejected when its diff yields no entry, more entries than
\* max_servers_per_pr, or more than one entry while splitting is disabled
\* (with the reason of the first of these that applies, when the diff was
\* searched); with splitting enabled a PR with 1..max_servers_per_pr entries
\* is not rejected for a reason of count.
C12_CountChecks ==
    analysis # Pending =>
        LET n == Len(ExtractableAdded(analysis.diff.text))
            max == args.max_servers_per_pr
            split == args.split_multiple_servers
        IN  /\ (n = 0 \/ n > max \/ (~split /\ n > 1)) =>
                  /\ WasRejected
                  /\ analysis.server_entries = <<>>
                  /\ rejected_prs[Len(rejected_prs)].pr_number = analysis.pr.number
            /\ (DiffScanned /\ n = 0) => LastReason = "No Server Entries"
            /\ (DiffScanned /\ n > max) => LastReason = "Exceeds Server Limit"
            /\ (DiffScanned /\ n >= 1 /\ n <= max /\ ~split /\ n > 1)
                  => LastReason = "Multiple Server Lines"
            /\ (split /\ n >= 1 /\ n <= max) =>
                  ~(WasRejected /\ LastReason \in {"No Server Entries",
                                                   "Exceeds Server Limit",
                                                   "Multiple Server Lines"})

\* a PR with two entries rejected for the limit of one entry
C12_Witness ==
    /\ WasRejected
    /\ DiffScanned
    /\ Len(ExtractableAdded(analysis.diff.text)) = 2
    /\ args.max_servers_per_pr = 1
    /\ LastReason = "Exceeds Server Limit"

\* C13: a PR whose diff was searched and whose number of entries n passed the
\* checks of count (1 <= n <= max_servers_per_pr, and n = 1 when splitting is
\* disabled) is rejected, with the reason "Too Many Changes", exactly when
\* more than 2 + n of its added lines are neither blank nor an entry; with
\* 2 + n such lines or fewer it is accepted.
C13_NoiseTolerance ==
    LET n == Len(ExtractableAdded(analysis.diff.text))
        noise == Len(NoiseAdded(analysis.diff.text))
    IN  (/\ DiffScanned
         /\ n >= 1
         /\ n <= args.max_servers_per_pr
         /\ (n = 1 \/ args.split_multiple_servers)) =>
            /\ noise > 2 + n => WasRejected /\ LastReason = "Too Many Changes"
            /\ noise <= 2 + n => ~WasRejected /\ Len(analysis.server_entries) = n
            /\ Len(analysis.added_lines) = n

\* accepted on the limit: two entries and four other lines added, which
\* would be too many for one entry
C13_Witness ==
    /\ DiffScanned
    /\ ~WasRejected
    /\ Len(analysis.server_entries) = 2
    /\ Len(NoiseAdded(analysis.diff.text)) = 4

\* the reasons analyze_pr_for_server_addition gives to log_rejection
ReasonCodes ==
    {"Resource Addition", "Diff Fetch Failed", "No README Changes", "No Server Entries",
     "Exceeds Server Limit", "Multiple Server Lines", "Too Many Changes"}

\* C14: every PR examined either yields at least one entry, added to the
\* results, and no rejection record, or yields no entry and exactly one
\* rejection record, of this PR and with one of the seven reasons, appended
\* to rejected_prs; the records rejected_prs held before stay as they were,
\* in place, also when the results are written at the end.
C14_RejectionIsData ==
    [][ LET entries == analysis'.server_entries
        IN  IF output' # output
            THEN rejected_prs' = rejected_prs /\ results' = results
            ELSE
            /\ progress'.analyzed = progress.analyzed + 1
            /\ analysis'.pr = all_prs[progress.analyzed + 1]
            /\ \/ /\ entries # <<>>
                  /\ ~analysis'.returned_none
                  /\ results' = results \o entries
                  /\ rejected_prs' = rejected_prs
                  /\ progress'.accepted_count = progress.accepted_count + 1
                  /\ progress'.rejected_count = progress.rejected_count
               \/ /\ entries = <<>>
                  /\ analysis'.returned_none
                  /\ results' = results
                  /\ Len(rejected_prs') = Len(rejected_prs) + 1
                  /\ SubSeq(rejected_prs', 1, Len(rejected_prs)) = rejected_prs
                  /\ rejected_prs'[Len(rejected_prs')].pr_number = analysis'.pr.number
                  /\ rejected_prs'[Len(rejected_prs')].rejection_reason \in ReasonCodes
                  /\ progress'.accepted_count = progress.accepted_count
                  /\ progress'.rejected_count = progress.rejected_count + 1
      ]_identifyVars

\* two PRs rejected for different reasons, one after the other: the second
\* record was appended to a log that held the first
C14_Witness ==
    /\ progress.analyzed = 2
    /\ Len(rejected_prs) = 2
    /\ rejected_prs[1].pr_number # rejected_prs[2].pr_number
    /\ rejected_prs[1].rejection_reason = "Too Many Changes"
    /\ rejected_prs[2].rejection_reason = "Resource Addition"

\* the category the line alone gives: official for an icon marker or the
\* text "official" in any letter case, community otherwise
LineCategory(rendered) ==
    IF Contains(rendered, ImgOpen) \/ Contains(Lower(rendered), OfficialWord)
    THEN Official ELSE Community

\* C15 as stated: the official label gives official and the community label
\* gives community, whatever the line; with neither label the line decides.
C15_LabelsDecide ==
    entry_category # <<>> =>
        /\ InList("add-official-server", pr_labels) => entry_category = Official
        /\ InList("add-community-server", pr_labels) => entry_category = Community
        /\ (~InList("add-official-server", pr_labels)
            /\ ~InList("add-community-server", pr_labels))
              => entry_category = LineCategory(extracted.complete_line)

\* C15, amended: the official label gives official; the community label
\* gives community when the PR does not carry the official label as well;
\* with neither label the line decides.
C15_OfficialLabelFirst ==
    entry_category # <<>> =>
        /\ InList("add-official-server", pr_labels) => entry_category = Official
        /\ (InList("add-community-server", pr_labels)
            /\ ~InList("add-official-server", pr_labels)) => entry_category = Community
        /\ (~InList("add-official-server", pr_labels)
            /\ ~InList("add-community-server", pr_labels))
              => entry_category = LineCategory(extracted.complete_line)

\* an entry with an icon marker, of a PR with the community label alone,
\* categorized community
C15_Witness ==
    /\ entry_category = Community
    /\ InList("add-community-server", pr_labels)
    /\ ~InList("add-official-server", pr_labels)
    /\ Contains(extracted.complete_line, ImgOpen)

\* C16: an accepted PR yields at least one entry, and all its entries carry
\* one category and one approval snapshot.
C16_OneCategoryPerPR ==
    (analysis # Pending /\ ~analysis.returned_none) =>
        /\ Len(analysis.server_entries) >= 1
        /\ \A i, j \in 1..Len(analysis.server_entries) :
              LET a == analysis.server_entries[i]
                  b == analysis.server_entries[j]
              IN  /\ a.category = b.category
                  /\ a.is_approved = b.is_approved
                  /\ a.approval_count = b.approval_count
                  /\ a.approver = b.approver
                  /\ a.approval_date = b.approval_date

\* the same of the approval snapshot alone
OneApprovalPerPR ==
    (analysis # Pending /\ ~analysis.returned_none) =>
        /\ Len(analysis.server_entries) >= 1
        /\ \A i, j \in 1..Len(analysis.server_entries) :
              LET a == analysis.server_entries[i]
                  b == analysis.server_entries[j]
              IN  /\ a.is_approved = b.is_approved
                  /\ a.approval_count = b.approval_count
                  /\ a.approver = b.approver
                  /\ a.approval_date = b.approval_date

\* the same of the category, for the PRs that carry a category label
OneCategoryWithLabel ==
    (/\ analysis # Pending
     /\ ~analysis.returned_none
     /\ \/ InList("add-official-server", analysis.pr.labels)
        \/ InList("add-community-server", analysis.pr.labels)) =>
        \A i, j \in 1..Len(analysis.server_entries) :
            analysis.server_entries[i].category = analysis.server_entries[j].category

\* the files written for a category, the records they hold in the order of
\* the files, and the records of the category that were to be written
FilesOf(server_type) ==
    SelectSeq(output.files, LAMBDA f : f.category = server_type)

BatchedRows(server_type) ==
    Join([k \in 1..Len(FilesOf(server_type)) |-> FilesOf(server_type)[k].rows])

RecordsOf(server_type) ==
    SelectSeq(output.filtered, LAMBDA r : r.category = TypeText(server_type))

\* C17: for either category the files written are numbered 1..k, each holds
\* between 1 and batch_size records, together they hold every record of the
\* category exactly once, and read in the order of the files the records
\* are sorted by lower-cased name; a category without records has no file.
C17_BatchPartition ==
    output.written =>
        /\ \A k \in 1..Len(output.files) :
              output.files[k].category \in {"official", "community"}
        /\ \A server_type \in {"official", "community"} :
              LET files == FilesOf(server_type)
                  rows == BatchedRows(server_type)
                  recs == RecordsOf(server_type)
              IN  /\ \A k \in 1..Len(files) :
                        /\ files[k].batch_num = k
                        /\ Len(files[k].rows) >= 1
                        /\ Len(files[k].rows) <= output.batch_size
                  /\ Len(rows) = Len(recs)
                  /\ \A r \in Range(recs) \cup Range(rows) : Count(rows, r) = Count(recs, r)
                  /\ \A i, j \in 1..Len(rows) :
                        i < j => ~StrLess(Lower(rows[j].server_name),
                                          Lower(rows[i].server_name))
                  /\ recs = <<>> => files = <<>>

\* three official records or more, "B" and "a" among their names, written
\* in files of two; and no community record
C17_Witness ==
    /\ output.written
    /\ output.batch_size = 2
    /\ Len(FilesOf("official")) >= 2
    /\ FilesOf("community") = <<>>
    /\ \E i, j \in 1..Len(RecordsOf("official")) :
          /\ i < j
          /\ RecordsOf("official")[i].server_name = <<"B">>
          /\ RecordsOf("official")[j].server_name = <<"a">>

\* the URLs of the entry lines of the section, lower-cased
SectionUrls(content, server_type) ==
    {Lower(extract_url_from_line(SectionEntries(content, server_type)[i])) :
        i \in 1..Len(SectionEntries(content, server_type))}

\* a description was generated from the records of this run
Described == run.generate /\ run.servers # <<>>

\* C18, first part: the description lists no record whose URL, case ignored,
\* is the URL of an entry line of the section as the README was.
C18_NoBulletForExisting ==
    Described =>
        \A k \in 1..Len(run.description.unique_servers) :
            Lower(run.description.unique_servers[k].server_url)
                \notin SectionUrls(run.before, run.server_type)

\* C18, second part: of the records whose URL is not in the section, every
\* URL (case ignored) is listed once and only once.
C18_OneBulletPerUrl ==
    Described =>
        LET listed == run.description.unique_servers
        IN  /\ \A i, j \in 1..Len(listed) :
                  i # j => Lower(listed[i].server_url) # Lower(listed[j].server_url)
            /\ \A k \in 1..Len(run.servers) :
                  Lower(run.servers[k].server_url)
                          \notin SectionUrls(run.before, run.server_type)
                  => \E i \in 1..Len(listed) :
                        Lower(listed[i].server_url) = Lower(run.servers[k].server_url)
            /\ \A i \in 1..Len(listed) : listed[i] \in Range(run.servers)

\* C18: the description of the records that the run before merged into the
\* section lists no record.
C18_NothingAfterMerge ==
    (Described /\ prev.kind = "merged" /\ prev.server_type = run.server_type)
        => run.description.unique_servers = <<>>

\* the same when every entry of the README starts its line
NothingAfterMergeOfWholeLines ==
    (Described /\ prev.kind = "merged" /\ prev.server_type = run.server_type
       /\ \A i \in 1..Len(ReadLines(run.before)) :
             Contains(ReadLines(run.before)[i], BoldOpen)
                 => StartsWith(Strip(ReadLines(run.before)[i]), Bullet))
        => run.description.unique_servers = <<>>

\* the pairs of the records a description lists, in the order of its bullets
ListedPairs ==
    [k \in 1..Len(close_description.unique_servers) |->
        [server_name |-> close_description.unique_servers[k].server_name,
         pr_number |-> IntOf(close_description.unique_servers[k].original_pr_number)]]

\* C19: what parse_pr_description finds in a generated description is one
\* pair for every bullet, in the order of the bullets: the name of the
\* record and the number of the PR it came from, without the suffix of a
\* split.
C19_LockStep ==
    close_pos.phase # "start" => close_prs = ListedPairs

\* the same for records that have a name
LockStepOfNamedRecords ==
    (close_pos.phase # "start"
       /\ \A k \in 1..Len(close_description.unique_servers) :
             close_description.unique_servers[k].server_name # <<>>)
        => close_prs = ListedPairs

\* two bullets of a split PR were parsed
SplitBulletsParsed ==
    /\ close_pos.phase = "processing"
    /\ Len(close_prs) = 2
    /\ close_prs[1].pr_number = 6 /\ close_prs[2].pr_number = 6

\* a turn of the loop of process_pr_batch has been taken
Processed == Len(all_results') = Len(all_results) + 1

\* C20: when the status fetched for a PR says closed or merged, process_pr
\* makes no comment request and no close request for it, leaves the PR as it
\* is, and its result is a success that is skipped with the reason
\* 'Already closed' or 'Already merged'.
C20_ClosureSkip ==
    [][ Processed =>
          LET pr_info == close_prs[close_pos.next + 1]
              status == check_pr_status(pr_info.pr_number)
              result == all_results'[Len(all_results')]
          IN  (status # None /\ (status.state = "closed" \/ status.merged))
                => /\ gh_requests' = gh_requests
                   /\ github' = github
                   /\ result.pr_number = pr_info.pr_number
                   /\ result.success /\ result.skipped
                   /\ result.error = ""
                   /\ result.reason \in {"Already closed", "Already merged"}
      ]_closeVars

\* without --dry-run two PRs were gone through, the first found merged
\* though open, the second found closed, and no request was made
C20_Witness ==
    /\ ~close_args.dry_run
    /\ Len(all_results) = 2
    /\ gh_requests = <<>>
    /\ all_results[1].skipped /\ all_results[1].reason = "Already merged"
    /\ all_results[2].skipped /\ all_results[2].reason = "Already closed"

\* a PR was commented on and closed, and the next bullet of the same PR was
\* skipped as closed
SplitPRClosedOnce ==
    /\ Len(all_results) = 2
    /\ Len(gh_requests) = 2
    /\ all_results[1].pr_number = all_results[2].pr_number
    /\ ~all_results[1].skipped
    /\ all_results[2].skipped /\ all_results[2].reason = "Already closed"

\* the requests made in the step
NewRequests == SubSeq(gh_requests', Len(gh_requests) + 1, Len(gh_requests'))

\* C21: for a PR found open, without --dry-run, the first request is the
\* comment; a close request is made only as the second request and only
\* after a comment that succeeded; the result is a failure 'Failed to add
\* comment' when the comment failed, a failure 'Failed to close PR (comment
\* may have been added)' when the close failed after the comment, and a
\* success that is not skipped otherwise.
C21_CommentThenClose ==
    [][ Processed =>
          LET pr_info == close_prs[close_pos.next + 1]
              status == check_pr_status(pr_info.pr_number)
              result == all_results'[Len(all_results')]
              made == NewRequests
          IN  (status # None /\ status.state # "closed" /\ ~status.merged
                 /\ ~close_args.dry_run)
                => /\ Len(made) \in {1, 2}
                   /\ \A k \in 1..Len(made) : made[k].pr_number = pr_info.pr_number
                   /\ made[1].kind = "comment"
                   /\ Len(made) = 2 <=> made[1].ok
                   /\ Len(made) = 2 => made[2].kind = "close"
                   /\ result.pr_number = pr_info.pr_number
                   /\ ~result.skipped
                   /\ result.success <=> (Len(made) = 2 /\ made[2].ok)
                   /\ result.error =
                        (IF ~made[1].ok THEN "Failed to add comment"
                         ELSE IF ~made[2].ok
                         THEN "Failed to close PR (comment may have been added)"
                         ELSE "")
      ]_closeVars

\* a PR whose comment failed, and then a PR that was commented on and whose
\* close failed
C21_Witness ==
    /\ Len(all_results) = 2
    /\ Len(gh_requests) = 3
    /\ ~gh_requests[1].ok
    /\ gh_requests[2].kind = "comment" /\ gh_requests[2].ok
    /\ gh_requests[3].kind = "close" /\ ~gh_requests[3].ok
    /\ all_results[1].error = "Failed to add comment"
    /\ all_results[2].error = "Failed to close PR (comment may have been added)"

\* C22: after a rate limit the request for a page is made again once, and
\* not again when the rate limit is still there.
C22_RetryOnce == fetch_retries <= 1

\* C23: an error of the request for a page that is no rate limit does not
\* end the run.
C23_RunNeverAborted == fetch_status # "exited"

\* a request that could not be answered in the closure stage (the status,
\* the comment or the close of a PR) is the failure of that PR, and main()
\* goes on with the next
FailureEndsOnePR ==
    [][ Processed =>
          /\ close_pos'.phase = "processing"
          /\ close_pos'.next = close_pos.next + 1
          /\ (check_pr_status(close_prs[close_pos.next + 1].pr_number) = None
                => ~all_results'[Len(all_results')].success)
      ]_closeVars

\* the comments posted on a PR in the run
CommentsOn(pr_number) ==
    {k \in 1..Len(gh_requests) :
        /\ gh_requests[k].kind = "comment"
        /\ gh_requests[k].ok
        /\ gh_requests[k].pr_number = pr_number}

\* C24: in one run no PR gets more than one comment.
C24_OneCommentPerPR ==
    \A k \in 1..Len(gh_requests) : Cardinality(CommentsOn(gh_requests[k].pr_number)) <= 1

\* the same when no close request failed
OneCommentWhenClosesSucceed ==
    (\A k \in 1..Len(gh_requests) : gh_requests[k].kind = "close" => gh_requests[k].ok)
        => C24_OneCommentPerPR

\* the URLs, lower-cased, of the records of the run
IncomingUrls == {Lower(run.servers[k].server_url) : k \in 1..Len(run.servers)}

\* C25: after a successful merge every entry line the section had is in the
\* section as it was, unless an earlier line of the section had its URL
\* (case ignored), and the URLs of the section are those it had and those
\* of the records.
C25_MergeKeepsEntries ==
    run.kind = "merged" =>
        LET before == SectionEntries(run.before, run.server_type)
            after == SectionEntries(readme, run.server_type)
        IN  /\ \A i \in 1..Len(before) :
                  (\A j \in 1..(i - 1) : ~SameUrl(before[j], before[i]))
                      => before[i] \in Range(after)
            /\ SectionUrls(readme, run.server_type)
                 = SectionUrls(run.before, run.server_type) \cup IncomingUrls

\* the first part of it
ExistingEntriesKept ==
    run.kind = "merged" =>
        LET before == SectionEntries(run.before, run.server_type)
            after == SectionEntries(readme, run.server_type)
        IN  \A i \in 1..Len(before) :
                (\A j \in 1..(i - 1) : ~SameUrl(before[j], before[i]))
                    => before[i] \in Range(after)

\* the second part of it when the section had an entry or the file ended
\* in a line break
UrlsUnitedOnWholeLines ==
    (run.kind = "merged"
       /\ (\/ SectionEntries(run.before, run.server_type) # <<>>
           \/ (run.before # <<>> /\ run.before[Len(run.before)] = NL)))
        => SectionUrls(readme, run.server_type)
             = SectionUrls(run.before, run.server_type) \cup IncomingUrls

\* the position of the first bullet line of the section after its header,
\* or of the section's end when it has none
FirstBulletOf(lines, sec) ==
    IF \E i \in (sec[1] + 1)..(sec[2] - 1) : StartsWith(Strip(lines[i]), Bullet)
    THEN CHOOSE i \in (sec[1] + 1)..(sec[2] - 1) :
            /\ StartsWith(Strip(lines[i]), Bullet)
            /\ \A j \in (sec[1] + 1)..(i - 1) : ~StartsWith(Strip(lines[j]), Bullet)
    ELSE sec[2]

MergeFrameOnWholeLines ==
    (run.kind = "merged"
       /\ (\/ SectionEntries(run.before, run.server_type) # <<>>
           \/ (run.before # <<>> /\ run.before[Len(run.before)] = NL)))
        => LET old == ReadLines(run.before)
               sec == find_servers_section(old, section_header(run.server_type))
               first == FirstBulletOf(old, sec)
               entries == SectionEntries(readme, run.server_type)
           IN  ReadLines(readme) = SubSeq(old, 1, first - 1)
                                   \o [k \in 1..Len(entries) |-> Ln(entries[k])]
                                   \o SubSeq(old, sec[2], Len(old))

\* a header of the rank of a section header or above: one to three "#" and
\* a blank
IsHeaderUpToRank3(line) ==
    \/ StartsWith(Strip(line), <<"#", " ">>)
    \/ StartsWith(Strip(line), <<"#", "#", " ">>)
    \/ StartsWith(Strip(line), <<"#", "#", "#", " ">>)

\* C27: the end find_servers_section returns is the first line after the
\* header of the section that is a header of rank 1, 2 or 3, or the end of
\* the lines when there is none.
C27_SectionBounds ==
    section_found # <<>> =>
        LET start_idx == section_found[1]
            end_idx == section_found[2]
        IN  /\ start_idx = 1
            /\ end_idx \in (start_idx + 1)..(Len(section_lines) + 1)
            /\ \A i \in (start_idx + 1)..(end_idx - 1) : ~IsHeaderUpToRank3(section_lines[i])
            /\ end_idx <= Len(section_lines) => IsHeaderUpToRank3(section_lines[end_idx])

\* the same when no header of rank 1 follows the header of the section
SectionBoundsWithoutRank1 ==
    (section_found # <<>>
       /\ \A i \in 2..Len(section_lines) : ~StartsWith(Strip(section_lines[i]), <<"#", " ">>))
        => C27_SectionBounds

\* C28: the reviews of a PR are asked for once when the PR is accepted and
\* not at all when it is rejected; every entry of the PR carries what that
\* one answer said (approved or not, the number of approvals, the first
\* approver and the date of the first approval), and its validation status
\* is Valid when that says approved and empty otherwise.
C28_ApprovalOncePerPR ==
    analysis # Pending =>
        /\ analysis.approval_requests = (IF analysis.returned_none THEN 0 ELSE 1)
        /\ analysis.returned_none => analysis.server_entries = <<>>
        /\ \A i \in 1..Len(analysis.server_entries) :
              LET entry == analysis.server_entries[i]
                  approvals == analysis.approval_response.approvals
              IN  /\ entry.is_approved = (analysis.approval_response.ok /\ approvals # <<>>)
                  /\ entry.approval_count = Len(approvals)
                  /\ entry.approver = (IF approvals # <<>> THEN approvals[1].user ELSE <<>>)
                  /\ entry.approval_date =
                        (IF approvals # <<>> THEN approvals[1].submitted_at ELSE <<>>)
                  /\ entry.validation_status = (IF entry.is_approved THEN Valid ELSE <<>>)

\* a PR with two approvals accepted with two entries, after a PR that was
\* rejected
C28_Witness ==
    /\ analysis # Pending
    /\ ~analysis.returned_none
    /\ Len(analysis.server_entries) = 2
    /\ analysis.server_entries[2].is_approved
    /\ analysis.server_entries[2].approval_count = 2
    /\ analysis.server_entries[2].validation_status = Valid
    /\ progress.rejected_count = 1

\* the URLs, lower-cased, of the records a description lists
AnnouncedUrls ==
    {Lower(run.description.unique_servers[k].server_url) :
        k \in 1..Len(run.description.unique_servers)}

\* the URLs of the entries the section has after the run and had not before
AddedUrls ==
    SectionUrls(readme, run.server_type) \ SectionUrls(run.before, run.server_type)

\* the bullet lines of a description
BulletLines(text) ==
    SelectSeq(ReadLines(text), LAMBDA l : StartsWith(l, Bullet))

\* the number in the title of a description is the number of its bullets,
\* and a description without a title has no bullet
CountIsBullets(description) ==
    LET n == Len(BulletLines(description.text))
    IN  /\ n = Len(description.unique_servers)
        /\ n > 0 =>
              /\ HasAt(description.text, 1, <<"# Add ">> \o ToStr(n))
              /\ description.text[Len(ToStr(n)) + 2]
                    \in {" Community MCP Server", " Official MCP Integration"}
        /\ n = 0 => description.text \in {NoServersText, NoNewServersText}

\* C29: when a run writes a description and calls the merge, the URLs (case
\* ignored) the description lists are the URLs of the entries the merge adds
\* to the section, and the number in its title is the number of its bullets.
C29_DescriptionMatchesMerge ==
    (Described /\ run.merge_called) =>
        /\ AnnouncedUrls = AddedUrls
        /\ CountIsBullets(run.description)

\* the same for a merge that succeeds on a file whose section had an entry
\* or that ended in a line break
DescriptionMatchesMergeOfWholeLines ==
    (Described /\ run.kind = "merged"
       /\ (\/ SectionEntries(run.before, run.server_type) # <<>>
           \/ (run.before # <<>> /\ run.before[Len(run.before)] = NL)))
        => /\ AnnouncedUrls = AddedUrls
           /\ CountIsBullets(run.description)

\* the number in the title is the number of bullets, whatever the merge does
DescriptionCountsItsBullets ==
    Described => CountIsBullets(run.description)

\* the text is an icon marker whose alt text is the name
IsMarkerWithAlt(text, name) ==
    /\ StartsWith(text, ImgOpen)
    /\ text[Len(text)] = ">"
    /\ Contains(text, <<" ">> \o AltName \o <<"=", "\"">> \o name \o <<"\"">>)

\* out is the markers of parts, each followed by its text: a marker with
\* alt text as it was, a marker without as a marker whose alt text is the name
RECURSIVE RepairedParts(_, _, _)
RepairedParts(parts, out, name) ==
    IF parts = <<>> THEN out = <<>>
    ELSE LET marker == Head(parts).marker
             close == FindChar(out, {">"}, 1)
             seg == IF HasAltText(marker) THEN marker ELSE SubSeq(out, 1, close)
         IN  /\ StartsWith(out, seg \o Head(parts).text)
             /\ HasAltText(marker) \/ IsMarkerWithAlt(seg, name)
             /\ RepairedParts(Tail(parts), From(out, Len(seg) + Len(Head(parts).text) + 1), name)

\* C30: in the line fix_img_alt_text returns, every marker that had no alt
\* text or a blank one is a marker with the name as alt text, every marker
\* with alt text is as it was, and the text before, between and after the
\* markers is as it was.
C30_MarkersRepairedEach ==
    repaired.done =>
        /\ StartsWith(repaired.line, repair_prefix)
        /\ RepairedParts(repair_parts, From(repaired.line, Len(repair_prefix) + 1),
                         repair_name)

\* a marker that parse_img_tag reads as an HTML reader does: no data-alt
\* attribute and no apostrophe in a value set in double quotes
PlainMarker(marker) ==
    /\ ~Contains(marker, <<"-">> \o AltName)
    /\ ~Contains(marker, <<"'", "k">>)

\* the same for the lines of plain markers
PlainMarkersRepairedEach ==
    (repaired.done /\ \A i \in 1..Len(repair_parts) : PlainMarker(repair_parts[i].marker))
        => /\ StartsWith(repaired.line, repair_prefix)
           /\ RepairedParts(repair_parts, From(repaired.line, Len(repair_prefix) + 1),
                            repair_name)

\* a line of three plain markers is repaired: the first and the third are
\* rewritten, the second is kept
ThreeMarkersRepaired ==
    /\ repaired.done
    /\ Len(repair_parts) = 3
    /\ \A i \in 1..3 : PlainMarker(repair_parts[i].marker)
    /\ ~HasAltText(repair_parts[1].marker)
    /\ HasAltText(repair_parts[2].marker)
    /\ ~HasAltText(repair_parts[3].marker)
    /\ repair_name = <<"n", "a", "m", "e">>

====
